---- MODULE Spec2Model ----
(***************************************************************************)
(* Model of the multi-agent MCQ review pipeline of agents.js               *)
(* (src/unnamed/part_000): callLLM, parseJSON, the orchestrator, the seven *)
(* specialist agents and reviewQuestion.                                   *)
(*                                                                         *)
(* JavaScript values are modelled as follows.  An object is a TLA+ record  *)
(* that has exactly the fields the object has; reading a field the object  *)
(* lacks gives Undefined, as in JavaScript.  null is the record Null, so   *)
(* that optional chaining (x?.f) is a field read of a record without that  *)
(* field.  A JavaScript array is a record [type |-> "array", ...], a       *)
(* string where an array was asked for is [type |-> "string"].  A model    *)
(* response is a sequence of tokens; the members of a JSON object are one  *)
(* token that carries the object they decode to.                           *)
(***************************************************************************)
EXTENDS Integers, Sequences, FiniteSets, TLC

\* ------------------------------------------------------------------ bounds
\* Largest number of agent names in a plan returned by the model.
MaxPlanLen == 2

\* ------------------------------------------------------------- JS values
Undefined == "undefined"
Null == [null |-> TRUE]
EmptyObject == [x \in {} |-> x]

\* obj.f / obj?.f for a string-valued field
Str(obj, f) == IF f \in DOMAIN obj THEN obj[f] ELSE Undefined
\* truthiness of obj.f / obj?.f for a boolean-valued field
Bool(obj, f) == IF f \in DOMAIN obj THEN obj[f] ELSE FALSE
\* truthiness of a string value
TruthyStr(s) == s \notin {"", Undefined}
\* a || b on strings
OrStr(a, b) == IF TruthyStr(a) THEN a ELSE b

\* ------------------------------------------------------------ agent names
ORCH == "orchestrator"
AV == "answer_verifier"
CA == "conflict_analyzer"
DR == "difficulty_rater"
UC == "unit_checker"
EC == "explanation_critic"
MT == "memory_trick_generator"
CC == "calculation_checker"

Stage1Agents == {AV, DR, UC}
Stage2Agents == {CA, EC, MT, CC}
Agents == Stage1Agents \cup Stage2Agents
Processes == {ORCH} \cup Agents

\* The model roster: both providers offer the three tiers.
MODELS == [groq |-> {"fast", "smart", "reason"},
           openrouter |-> {"fast", "smart", "reason"}]
Providers == DOMAIN MODELS

\* ------------------------------------------------------- response texts
\* Tokens of a model response.
FENCE_JSON == [k |-> "fence_json"]
FENCE == [k |-> "fence"]
THINK_OPEN == [k |-> "<think>"]
THINK_CLOSE == [k |-> "</think>"]
LBRACE == [k |-> "{"]
RBRACE == [k |-> "}"]
PROSE == [k |-> "prose"]
\* the members of a JSON object that decodes to obj
Members(obj) == [k |-> "members", v |-> obj]

\* the text of a JSON object, bare
Bare(obj) == IF obj = EmptyObject THEN <<LBRACE, RBRACE>>
             ELSE <<LBRACE, Members(obj), RBRACE>>
\* the same in a fenced block after a reasoning trace that contains braces
Fenced(obj) == <<THINK_OPEN, PROSE, LBRACE, PROSE, RBRACE, THINK_CLOSE,
                 FENCE_JSON>> \o Bare(obj) \o <<FENCE>>

\* -------------------------------------------------------------- parseJSON
\* A thrown Error; its message is kept as the class of the error:
\* "ConfigError" (no usable key), "TransportError" (response not ok),
\* "ParseError" (parseJSON or JSON.parse threw), "TypeError".
\* what can be thrown, by its kind: the key check of callLLM, a response
\* that is not ok, a text that does not parse, a call of a missing method
ErrorMessages == {"ConfigError", "TransportError", "ParseError", "TypeError"}
Failure(msg) == [ok |-> FALSE, message |-> msg]
Success(v) == [ok |-> TRUE, value |-> v]

\* the two replace() calls that drop the code-fence markers
StripFences(raw) == SelectSeq(raw, LAMBDA t : t \notin {FENCE_JSON, FENCE})

\* (variant: reasoning blocks are left in the text)
StripThinkNot(s) == s

\* the replace() that drops each reasoning block: leftmost, shortest, repeated
RECURSIVE StripThink(_)
StripThink(s) ==
  LET opens == {i \in 1..Len(s) : s[i] = THINK_OPEN}
  IN IF opens = {} THEN s
     ELSE LET i == CHOOSE x \in opens : \A y \in opens : x <= y
              closes == {j \in (i + 1)..Len(s) : s[j] = THINK_CLOSE}
          IN IF closes = {} THEN s
             ELSE LET j == CHOOSE x \in closes : \A y \in closes : x <= y
                  IN SubSeq(s, 1, i - 1) \o StripThink(SubSeq(s, j + 1, Len(s)))

\* JSON.parse of the slice from the first '{' to the last '}'
JSONParse(slice) ==
  IF slice = <<LBRACE, RBRACE>> THEN Success(EmptyObject)
  ELSE IF Len(slice) = 3 /\ slice[1] = LBRACE /\ slice[3] = RBRACE
          /\ slice[2].k = "members"
       THEN Success(slice[2].v)
       ELSE Failure("ParseError")

parseJSON(raw) ==
  LET clean == StripThink(StripFences(raw))
      lefts == {i \in 1..Len(clean) : clean[i] = LBRACE}
      rights == {i \in 1..Len(clean) : clean[i] = RBRACE}
  IN IF lefts = {} \/ rights = {} THEN Failure("ParseError")
     ELSE LET start == CHOOSE x \in lefts : \A y \in lefts : x <= y
              end == CHOOSE x \in rights : \A y \in rights : x >= y
          IN JSONParse(SubSeq(clean, start, end))

\* -------------------------------------------------------------- the state
VARIABLES
  question,   \* the Question record under review
  keys,       \* process.env: whether each provider has a usable API key
  phase,      \* where reviewQuestion stands
  plan,       \* the plan returned by orchestrate, Null before
  pc,         \* per agent: "idle", "skipped", "await" (a call in flight), "done"
  res,        \* per agent: the value its promise resolved to, Null before
  calls,      \* per process: the callLLM invocations it made, in order
  agentLog,   \* the log lines of this review, in order
  review      \* the ReviewResult returned, Null before

\* the state of the handler of POST /api/review-all (server.js)
VARIABLES
  questions,  \* req.body.questions
  idx,        \* the loop index i
  results,    \* the results array
  events,     \* the events written to the response, by type and index
  batchPc     \* where the handler stands; "none" outside a batch request
batchVars == <<questions, idx, results, events, batchPc>>

\* a call of parseJSON on its own
VARIABLES
  raw,        \* the text given to parseJSON
  parseResult \* what parseJSON returned or threw, Null before
parserVars == <<raw, parseResult>>

\* the providers' answers when they are fixed beforehand
VARIABLES
  responses   \* per process: the outcome of its n-th request, if fixed

vars == <<question, keys, phase, plan, pc, res, calls, agentLog, review,
          questions, idx, results, events, batchPc, raw, parseResult,
          responses>>

\* ---------------------------------------------------------- the questions
Options == {"A", "B"}
\* A question text is its sequence of words.
\* the three answer columns: all agree, the AI answer differs, the final
\* answer differs
AnswerColumns ==
  {[rightOption |-> "A", aiAnswer |-> "A", finalAnswer |-> "A"],
   [rightOption |-> "A", aiAnswer |-> "B", finalAnswer |-> "A"],
   [rightOption |-> "A", aiAnswer |-> "A", finalAnswer |-> "B"]}

\* the other columns of a question with this text and this explanation
Columns(text, expl) ==
  [code |-> "Q1", question |-> text, finalExplanation |-> expl,
   feedback |-> "", difficulty |-> "Easy", unit |-> "U1"]

\* a plain question without explanation under each of the answer columns,
\* the same question with an explanation, and a numeric question
Questions ==
  {a @@ Columns(<<"filing", "deadline">>, "") : a \in AnswerColumns}
  \cup {[rightOption |-> "A", aiAnswer |-> "A", finalAnswer |-> "A"]
           @@ Columns(<<"filing", "deadline">>, "because"),
        [rightOption |-> "A", aiAnswer |-> "B", finalAnswer |-> "A"]
           @@ Columns(<<"deduct", "$", "meals">>, "")}

\* the test of the question text against the numeric keywords
NumericMarkers == {"$", "million", "thousand", "percent", "%"}
IsNumericalText(text) == \E i \in 1..Len(text) : text[i] \in NumericMarkers

\* ------------------------------------------- what the models may answer
Array(n) == [type |-> "array", length |-> n]
NotArray == [type |-> "string"]

SubsetsUpTo(S, n) == {T \in SUBSET S : Cardinality(T) <= n}

\* plans: any list of at most MaxPlanLen agent names, any numeric flag; or
\* an object without an agents list
PlanObjects ==
  [agents : SubsetsUpTo(Agents, MaxPlanLen), reasoning : {"r"},
   hasAnswerConflict : {FALSE}, isNumerical : BOOLEAN]
  \cup {[reasoning |-> "r"]}

AnswerObjects ==
  [correctAnswer : {"B"}, confidence : {"high"},
   verdict : {"ai_correct", "uncertain"}, reasoning : {"rule"},
   needsHumanReview : {FALSE}]

ConflictObjects ==
  [resolution : {"manual_correct"}, finalRecommendedAnswer : {"A"},
   conflictType : {"outdated_law"}, explanation : {"why"},
   escalateToHuman : {FALSE}]

DifficultyObjects ==
  [difficulty : {"Hard"}, reasoning : {"multi-step"},
   currentRatingCorrect : {FALSE}, suggestedChange : {"change to Hard"}]

UnitObjects ==
  [belongsInUnit : {TRUE}, confidence : {"high"}, reasoning : {"topic"},
   suggestedUnit : {"U1"}, questionType : {"Static Question"}]

ExplanationObjects ==
  [quality : {"Poor"}, score : {3}, missingElements : {Array(1), NotArray},
   improvementSuggestion : {"cite the rule"}, needsCalculation : {FALSE}]

MemoryObjects ==
  [memoryTrick : {"rhyme"}, type : {"rhyme"}, keyConceptSummary : {"core"}]

CalculationObjects ==
  [requiresCalculation : {TRUE}, calculationSteps : {"steps"},
   thresholdsInvolved : {Array(1)}, formulaUsed : {"f"}]

Objects(p) ==
  CASE p = ORCH -> PlanObjects
    [] p = AV -> AnswerObjects
    [] p = CA -> ConflictObjects
    [] p = DR -> DifficultyObjects
    [] p = UC -> UnitObjects
    [] p = EC -> ExplanationObjects
    [] p = MT -> MemoryObjects
    [] p = CC -> CalculationObjects

\* What a provider that holds a key may do with a call of process p: a
\* response that is not ok, a response without content, or one of the
\* objects of p, bare or in a fenced block after a reasoning trace.
Remote ==
  [p \in Processes |->
     {Failure("TransportError"), Success(<<>>)}
     \cup {Success(Bare(o)) : o \in Objects(p)}
     \cup {Success(Fenced(o)) : o \in Objects(p)}]

\* ---------------------------------------------------------------- callLLM
\* The outcomes of callLLM(messages, {provider, tier}) for process p: the
\* key check throws, or the provider answers.
callLLM(provider, tier, p, R) ==
  IF ~keys[provider] THEN {Failure("ConfigError")} ELSE R[p]

\* The record of one callLLM invocation.  sent: a request left the process
\* (the key check passed).  outcome: "pending" while in flight, then "ok"
\* when the try block that awaited it ran to its return, "failed" when the
\* call or the parse of its text threw.
Call(provider, tier) ==
  [provider |-> provider, tier |-> tier, sent |-> keys[provider],
   outcome |-> "pending"]

\* the calls of process p once the call in flight has settled
Closed(p, ok) ==
  [calls[p] EXCEPT ![Len(calls[p])].outcome = IF ok THEN "ok" ELSE "failed"]

Last(s) == s[Len(s)]

\* a log line, by the agent that wrote it and by its kind: "start", "ok",
\* "warn" (the line of a catch branch), ...; its text is left out
Line(who, what) == [who |-> who, what |-> what]

\* process.env as the review finds it: both keys set, only the Groq key
\* unset, or both unset
KeyConfigs ==
  {[groq |-> TRUE, openrouter |-> TRUE],
   [groq |-> FALSE, openrouter |-> TRUE],
   [groq |-> FALSE, openrouter |-> FALSE]}

\* no answer is fixed beforehand
NoResponses == [p \in Processes |-> <<>>]

\* ------------------------------------------------------------------- Init
InitWith(Qs, Ks) ==
  /\ question \in Qs
  /\ keys \in Ks
  /\ phase = "start"
  /\ plan = Null
  /\ pc = [a \in Agents |-> "idle"]
  /\ res = [a \in Agents |-> Null]
  /\ calls = [p \in Processes |-> <<>>]
  /\ agentLog = <<>>
  /\ review = Null
  /\ questions = <<>> /\ idx = 0 /\ results = <<>> /\ events = <<>>
  /\ batchPc = "none"
  /\ raw = <<>> /\ parseResult = Null
  /\ responses = NoResponses

\* ------------------------------------------------------------ orchestrate
\* orchestrate up to its await: the first log line and the call
OrchestrateStart ==
  /\ phase = "start"
  /\ phase' = "planning"
  /\ agentLog' = Append(agentLog, Line(ORCH, "start"))
  /\ calls' = [calls EXCEPT ![ORCH] = Append(@, Call("groq", "fast"))]
  /\ UNCHANGED <<question, keys, plan, pc, res, review>>

\* the plan of the catch branch
DefaultPlan ==
  [agents |-> {AV, DR, UC, EC, MT},
   reasoning |-> "Default full review",
   hasAnswerConflict |-> question.rightOption # question.aiAnswer,
   isNumerical |-> IsNumericalText(question.question)]

\* the try block of orchestrate on the outcome of its call: the plan, or
\* the failure that reaches the catch (plan.agents.join throws on an
\* object without an agents list)
PlanOf(outcome) ==
  IF ~outcome.ok THEN outcome
  ELSE LET parsed == parseJSON(outcome.value)
       IN IF ~parsed.ok THEN parsed
          ELSE IF "agents" \notin DOMAIN parsed.value
               THEN Failure("TypeError")
               ELSE parsed

\* orchestrate from the settling of its call to its return
OrchestrateSettle(R) ==
  /\ phase = "planning"
  /\ \E outcome \in callLLM("groq", "fast", ORCH, R) :
       LET p == PlanOf(outcome)
       IN /\ IF p.ok
             THEN /\ plan' = p.value
                  /\ agentLog' = Append(agentLog, Line(ORCH, "plan"))
             ELSE /\ plan' = DefaultPlan
                  /\ agentLog' = Append(agentLog, Line(ORCH, "warn"))
          /\ calls' = [calls EXCEPT ![ORCH] = Closed(ORCH, p.ok)]
  /\ phase' = "planned"
  /\ UNCHANGED <<question, keys, pc, res, review>>

\* ------------------------------------------------------------- the agents
\* the degraded results of the catch branches
\* (variant: the last catch rethrows, so that no result is returned)
answerVerifierRethrows(msg) == Null

\* (variant: the degraded result of the verifier gives no verdict)
answerVerifierDefaultNoVerdict(msg) ==
  [correctAnswer |-> "?", confidence |-> "low",
   needsHumanReview |-> TRUE, humanReviewReason |-> msg]

answerVerifierDefault(msg) ==
  [correctAnswer |-> "?", confidence |-> "low", verdict |-> "uncertain",
   needsHumanReview |-> TRUE, humanReviewReason |-> msg]

conflictAnalyzerDefault(msg) ==
  [resolution |-> "genuinely_ambiguous", finalRecommendedAnswer |-> "?",
   conflictType |-> "unclear", escalateToHuman |-> TRUE,
   escalationReason |-> msg]

difficultyRaterDefault(msg) ==
  [difficulty |-> OrStr(question.difficulty, "Medium"),
   reasoning |-> "Agent failed", currentRatingCorrect |-> TRUE,
   suggestedChange |-> "keep"]

unitCheckerDefault(msg) ==
  [belongsInUnit |-> TRUE, confidence |-> "low", reasoning |-> "Agent failed",
   suggestedUnit |-> question.unit, questionType |-> "Static Question"]

explanationCriticDefault(msg) ==
  [quality |-> "Unknown", score |-> 5, missingElements |-> Array(0),
   improvementSuggestion |-> "Agent failed",
   needsCalculation |-> FALSE]

memoryTrickGeneratorDefault(msg) ==
  [memoryTrick |-> "", type |-> "none", keyConceptSummary |-> ""]

calculationCheckerDefault(msg) ==
  [requiresCalculation |-> FALSE, calculationSteps |-> "",
   thresholdsInvolved |-> Array(0), formulaUsed |-> ""]

\* (variant: a question without explanation is rated 'Poor')
explanationMissingPoor ==
  [quality |-> "Poor", score |-> 0, missingElements |-> Array(1),
   improvementSuggestion |-> "No explanation exists",
   needsCalculation |-> FALSE]

\* the result explanationCritic returns without a call
explanationMissing ==
  [quality |-> "Missing", score |-> 0, missingElements |-> Array(1),
   improvementSuggestion |-> "No explanation exists",
   needsCalculation |-> FALSE]

\* question.finalExplanation || question.feedback || ''
explanation == OrStr(question.finalExplanation, OrStr(question.feedback, ""))

\* callLLM followed by parseJSON: the parsed object or what was thrown
CallAndParse(outcome) ==
  IF outcome.ok THEN parseJSON(outcome.value) ELSE outcome

\* an agent at its await: its first log line is written, its call issued
Invoke(a, provider, tier, st) ==
  [st EXCEPT !.pc[a] = "await",
             !.calls[a] = Append(@, Call(provider, tier)),
             !.log = Append(@, Line(a, "start"))]

\* an agent that is not run: its slot resolves to null
Skip(a, st) == [st EXCEPT !.pc[a] = "skipped"]

\* try { raw = await callLLM(..); result = parseJSON(raw); log; return }
\* catch (e) { log warning; return the degraded result }
SingleCallSettle(a, provider, tier, Degraded, R) ==
  /\ pc[a] = "await"
  /\ \E outcome \in callLLM(provider, tier, a, R) :
       LET r == CallAndParse(outcome)
       IN /\ IF r.ok
             THEN /\ res' = [res EXCEPT ![a] = r.value]
                  /\ agentLog' = Append(agentLog, Line(a, "ok"))
             ELSE /\ res' = [res EXCEPT ![a] = Degraded[r.message]]
                  /\ agentLog' = Append(agentLog, Line(a, "warn"))
          /\ calls' = [calls EXCEPT ![a] = Closed(a, r.ok)]
  /\ pc' = [pc EXCEPT ![a] = "done"]
  /\ UNCHANGED <<question, keys, phase, plan, review>>

DifficultyRaterSettle(R) ==
  SingleCallSettle(DR, "groq", "fast",
                   [m \in ErrorMessages |-> difficultyRaterDefault(m)], R)
UnitCheckerSettle(R) ==
  SingleCallSettle(UC, "groq", "fast",
                   [m \in ErrorMessages |-> unitCheckerDefault(m)], R)
ConflictAnalyzerSettle(R) ==
  SingleCallSettle(CA, "groq", "smart",
                   [m \in ErrorMessages |-> conflictAnalyzerDefault(m)], R)
ExplanationCriticSettle(R) ==
  SingleCallSettle(EC, "groq", "smart",
                   [m \in ErrorMessages |-> explanationCriticDefault(m)], R)
MemoryTrickGeneratorSettle(R) ==
  SingleCallSettle(MT, "groq", "fast",
                   [m \in ErrorMessages |-> memoryTrickGeneratorDefault(m)], R)
CalculationCheckerSettle(R) ==
  SingleCallSettle(CC, "groq", "fast",
                   [m \in ErrorMessages |-> calculationCheckerDefault(m)], R)

\* answerVerifier: the call in flight settles.  The inner try covers the
\* first call only: when it throws, the smart tier is called.  Anything
\* thrown after that, by the second call or by parseJSON, reaches the outer
\* catch, which calls OpenRouter; when that fails too the degraded result
\* is returned.
AnswerVerifierSettle(R) ==
  /\ pc[AV] = "await"
  /\ \E outcome \in callLLM(Last(calls[AV]).provider, Last(calls[AV]).tier, AV, R) :
       LET cur == Last(calls[AV])
           r == CallAndParse(outcome)
           retry(provider, tier) ==
             /\ calls' = [calls EXCEPT ![AV] =
                            Append(Closed(AV, r.ok), Call(provider, tier))]
             /\ UNCHANGED <<pc, res, agentLog>>
           return(value, line) ==
             /\ res' = [res EXCEPT ![AV] = value]
             /\ agentLog' = Append(agentLog, line)
             /\ pc' = [pc EXCEPT ![AV] = "done"]
             /\ calls' = [calls EXCEPT ![AV] = Closed(AV, r.ok)]
       IN    CASE cur.provider = "groq" /\ cur.tier = "reason" ->
                    IF ~outcome.ok THEN retry("groq", "smart")
                    ELSE IF r.ok THEN return(r.value, Line(AV, "ok"))
                    ELSE retry("openrouter", "smart")
               [] cur.provider = "groq" /\ cur.tier = "smart" ->
                    IF r.ok THEN return(r.value, Line(AV, "ok"))
                    ELSE retry("openrouter", "smart")
               [] cur.provider = "openrouter" ->
                    IF r.ok THEN return(r.value, Line(AV, "ok-fallback"))
                    ELSE return(answerVerifierDefault(r.message),
                                Line(AV, "warn"))
  /\ UNCHANGED <<question, keys, phase, plan, review>>

\* --------------------------------------------------------- reviewQuestion
agentSet == plan.agents

\* the three promises of the first Promise.all, created in order
Stage1Start ==
  /\ phase = "planned"
  /\ LET s0 == [pc |-> pc, calls |-> calls, log |-> agentLog]
         s1 == IF AV \in agentSet THEN Invoke(AV, "groq", "reason", s0) ELSE Skip(AV, s0)
         s2 == IF DR \in agentSet THEN Invoke(DR, "groq", "fast", s1) ELSE Skip(DR, s1)
         s3 == IF UC \in agentSet THEN Invoke(UC, "groq", "fast", s2) ELSE Skip(UC, s2)
     IN /\ pc' = s3.pc
        /\ calls' = s3.calls
        /\ agentLog' = s3.log
  /\ phase' = "stage1"
  /\ UNCHANGED <<question, keys, plan, res, review>>

\* (variant: the stage is over as soon as one promise has resolved)
SettledAny(stage) == \E a \in stage : pc[a] \in {"skipped", "done"}

\* await Promise.all([...]): every promise of the stage has resolved
Settled(stage) == \A a \in stage : pc[a] \in {"skipped", "done"}

\* (variant: the Stage-1 agents leave their result in one shared slot, so
\* that the slot holds the result of the agent that settled last)
answerResultSharedSlot ==
  LET settled == {i \in 1..Len(agentLog) :
                    /\ agentLog[i].who \in Stage1Agents
                    /\ agentLog[i].what # "start"}
  IN IF settled = {} \/ res[AV] = Null THEN res[AV]
     ELSE res[agentLog[CHOOSE i \in settled : \A j \in settled : j <= i].who]

answerResult == res[AV]
conflictResult == res[CA]
difficultyResult == res[DR]
unitResult == res[UC]
explanationResult == res[EC]
memoryResult == res[MT]
calcResult == res[CC]

\* (variant: any verdict of the verifier counts as a conflict)
hasConflictAnyVerdict ==
  \/ question.rightOption # question.aiAnswer
  \/ question.rightOption # question.finalAnswer
  \/ TruthyStr(Str(res[AV], "verdict"))

\* (variant: the verifier's verdict is not read)
hasConflictAnswersOnly ==
  \/ question.rightOption # question.aiAnswer
  \/ question.rightOption # question.finalAnswer

hasConflict ==
  \/ question.rightOption # question.aiAnswer
  \/ question.rightOption # question.finalAnswer
  \/ Str(answerResult, "verdict") = "uncertain"

\* (variant: the plan alone decides)
RunsConflictAnalyzerPlanOnly == CA \in plan.agents /\ res[AV] # Null

\* the conditions of the second Promise.all
RunsConflictAnalyzer == (CA \in agentSet \/ hasConflict) /\ answerResult # Null
RunsExplanationCritic == EC \in agentSet
RunsMemoryTrickGenerator == MT \in agentSet

\* (variant: the plan alone decides)
RunsCalculationCheckerPlanOnly == CC \in plan.agents

RunsCalculationChecker == CC \in agentSet \/ Bool(plan, "isNumerical")

\* (variant: no early return)
InvokeExplanationCriticAlways(st) == Invoke(EC, "groq", "smart", st)

\* explanationCritic up to its first await, or to its return when the
\* question has no explanation
InvokeExplanationCritic(st) ==
  IF explanation = ""
  THEN [st EXCEPT !.pc[EC] = "done",
                  !.res[EC] = explanationMissing,
                  !.log = @ \o <<Line(EC, "start"), Line(EC, "missing")>>]
  ELSE Invoke(EC, "groq", "smart", st)

\* the four promises of the second Promise.all, created in order once the
\* first has resolved
Stage2Start ==
  /\ phase = "stage1"
  /\ Settled(Stage1Agents)
  /\ LET s0 == [pc |-> pc, calls |-> calls, log |-> agentLog, res |-> res]
         s1 == IF RunsConflictAnalyzer THEN Invoke(CA, "groq", "smart", s0) ELSE Skip(CA, s0)
         s2 == IF RunsExplanationCritic THEN InvokeExplanationCritic(s1) ELSE Skip(EC, s1)
         s3 == IF RunsMemoryTrickGenerator THEN Invoke(MT, "groq", "fast", s2) ELSE Skip(MT, s2)
         s4 == IF RunsCalculationChecker THEN Invoke(CC, "groq", "fast", s3) ELSE Skip(CC, s3)
     IN /\ pc' = s4.pc
        /\ calls' = s4.calls
        /\ agentLog' = s4.log
        /\ res' = s4.res
  /\ phase' = "stage2"
  /\ UNCHANGED <<question, keys, plan, review>>

\* ------------------------------------------------------------- synthesis
\* (variant: the verifier's answer is preferred to the analyzer's)
finalAnswerVerifierFirst ==
  OrStr(Str(res[AV], "correctAnswer"),
        OrStr(Str(res[CA], "finalRecommendedAnswer"),
              OrStr(question.finalAnswer, question.rightOption)))

finalAnswer ==
  OrStr(Str(conflictResult, "finalRecommendedAnswer"),
        OrStr(Str(answerResult, "correctAnswer"),
              OrStr(question.finalAnswer, question.rightOption)))

\* (variant: the analyzer's escalation is not read)
needsHumanVerifierOnly ==
  \/ Bool(res[AV], "needsHumanReview")
  \/ Str(res[AV], "confidence") = "low"
  \/ Str(res[AV], "verdict") = "uncertain"

needsHuman ==
  \/ Bool(answerResult, "needsHumanReview")
  \/ Bool(conflictResult, "escalateToHuman")
  \/ Str(answerResult, "confidence") = "low"
  \/ Str(answerResult, "verdict") = "uncertain"

\* one part of the queries column: the kind of the notice and what it
\* quotes
Notice(kind, detail) == [kind |-> kind, detail |-> detail]

\* (variant: no default text for the reason)
humanReasonNoDefault ==
  OrStr(Str(res[AV], "humanReviewReason"), Str(res[CA], "escalationReason"))

\* the reason quoted by the human-review notice
humanReason ==
  OrStr(Str(answerResult, "humanReviewReason"),
        OrStr(Str(conflictResult, "escalationReason"), "Uncertain answer"))

queryParts ==
  LET parts ==
        (IF needsHuman THEN <<Notice("HUMAN REVIEW NEEDED", humanReason)>> ELSE <<>>)
        \o (IF conflictResult # Null /\ hasConflict
            THEN <<Notice("Answer conflict", Str(conflictResult, "conflictType"))>>
            ELSE <<>>)
        \o (IF difficultyResult # Null /\ ~Bool(difficultyResult, "currentRatingCorrect")
            THEN <<Notice("Difficulty", Str(difficultyResult, "difficulty"))>>
            ELSE <<>>)
        \o (IF ~Bool(unitResult, "belongsInUnit")
            THEN <<Notice("Unit mismatch", Str(unitResult, "suggestedUnit"))>>
            ELSE <<>>)
        \o (IF Str(explanationResult, "quality") \in {"Needs Improvement", "Poor"}
            THEN <<Notice("Explanation", Str(explanationResult, "improvementSuggestion"))>>
            ELSE <<>>)
        \o (IF Bool(calcResult, "requiresCalculation")
            THEN <<Notice("Add calculation", Str(calcResult, "calculationSteps"))>>
            ELSE <<>>)
  IN IF parts = <<>> THEN <<Notice("Kept as is", "")>> ELSE parts

\* x?.f?.join(..) throws when f is there and is no array
JoinThrows(obj, f) == f \in DOMAIN obj /\ obj[f].type # "array"

\* the object literal of the return statement; the two join calls can throw
SynthesisThrows ==
  \/ JoinThrows(explanationResult, "missingElements")
  \/ JoinThrows(calcResult, "thresholdsInvolved")

\* the fields of the result that are copied from the agents' results
AgentFields(obj, fields) == [f \in fields \cap DOMAIN obj |-> obj[f]]

DoneResult ==
  [status |-> "done",
   needsHuman |-> needsHuman,
   hasConflict |-> hasConflict,
   plan |-> plan,
   finalAnswer |-> finalAnswer,
   answer |-> AgentFields(answerResult, {"correctAnswer", "verdict", "confidence", "reasoning"}),
   conflict |-> AgentFields(conflictResult, {"conflictType", "explanation"}),
   difficulty |-> OrStr(Str(difficultyResult, "difficulty"), question.difficulty),
   difficultyChanged |-> (difficultyResult # Null
                          /\ ~Bool(difficultyResult, "currentRatingCorrect")),
   unit |-> AgentFields(unitResult, {"belongsInUnit", "suggestedUnit", "questionType"}),
   explanation |-> AgentFields(explanationResult,
                     {"quality", "score", "missingElements", "improvementSuggestion"}),
   calculation |-> AgentFields(calcResult,
                     {"requiresCalculation", "calculationSteps", "thresholdsInvolved"}),
   memory |-> AgentFields(memoryResult, {"memoryTrick", "type", "keyConceptSummary"}),
   queries |-> queryParts]

\* (variants: no catch branch; a catch branch that does not escalate)
ErrorRethrown(msg) == [status |-> "rejected", message |-> msg]
ErrorResultQuiet(msg) ==
  [status |-> "error",
   needsHuman |-> FALSE,
   hasConflict |-> FALSE,
   queries |-> <<Notice("SYSTEM ERROR", msg)>>,
   difficulty |-> question.difficulty,
   finalAnswer |-> OrStr(question.finalAnswer, question.rightOption)]

\* the result of the catch branch of reviewQuestion
ErrorResult(msg) ==
  [status |-> "error",
   needsHuman |-> TRUE,
   hasConflict |-> FALSE,
   queries |-> <<Notice("SYSTEM ERROR", msg)>>,
   difficulty |-> question.difficulty,
   finalAnswer |-> OrStr(question.finalAnswer, question.rightOption)]

\* reviewQuestion from the resolution of the second Promise.all to its
\* return
Synthesize ==
  /\ phase = "stage2"
  /\ Settled(Stage2Agents)
  /\ IF SynthesisThrows
     THEN /\ review' = ErrorResult("TypeError")
          /\ agentLog' = agentLog \o <<Line("review", "complete"),
                                       Line("review", "error")>>
     ELSE /\ review' = DoneResult
          /\ agentLog' = Append(agentLog, Line("review", "complete"))
  /\ phase' = "returned"
  /\ UNCHANGED <<question, keys, plan, pc, res, calls>>

\* ---------------------------------------------------- the specifications
\* one review, with the providers answering as R allows
Step(R) ==
  /\ UNCHANGED <<batchVars, parserVars, responses>>
  /\ \/ OrchestrateStart
     \/ OrchestrateSettle(R)
     \/ Stage1Start
     \/ AnswerVerifierSettle(R)
     \/ DifficultyRaterSettle(R)
     \/ UnitCheckerSettle(R)
     \/ Stage2Start
     \/ ConflictAnalyzerSettle(R)
     \/ ExplanationCriticSettle(R)
     \/ MemoryTrickGeneratorSettle(R)
     \/ CalculationCheckerSettle(R)
     \/ Synthesize

Init == InitWith(Questions, KeyConfigs)
Next == Step(Remote)
Spec == Init /\ [][Next]_vars

\* ------------------------------------------- reviews with varied results
\* A second set of inputs, for what reviewQuestion computes from the
\* agents' results: the verifier and the analyzer answer with or without
\* each of the fields the synthesis reads, the other agents with either
\* value of the field it reads.
SynthesisQuestions ==
  {[rightOption |-> "A", aiAnswer |-> "B", finalAnswer |-> "A"]
     @@ Columns(<<"filing", "deadline">>, "because"),
   [rightOption |-> "A", aiAnswer |-> "A", finalAnswer |-> "A"]
     @@ Columns(<<"filing", "deadline">>, "because"),
   [rightOption |-> "A", aiAnswer |-> "A", finalAnswer |-> ""]
     @@ Columns(<<"filing", "deadline">>, "because")}

SynthesisPlans ==
  [agents : {{}, {AV}, {CA}, {DR, UC}, {AV, DR, EC}, {AV, UC, MT}},
   reasoning : {"r"}, hasAnswerConflict : BOOLEAN, isNumerical : BOOLEAN]

SynthesisAnswers ==
  {[correctAnswer |-> "A", confidence |-> "high", verdict |-> "manual_correct",
    needsHumanReview |-> FALSE],
   [correctAnswer |-> "A", confidence |-> "high", verdict |-> "manual_correct",
    needsHumanReview |-> TRUE, humanReviewReason |-> "two rules apply"],
   [correctAnswer |-> "A", confidence |-> "low", verdict |-> "manual_correct",
    needsHumanReview |-> FALSE],
   [correctAnswer |-> "B", confidence |-> "high", verdict |-> "uncertain",
    needsHumanReview |-> FALSE],
   [confidence |-> "high", verdict |-> "ai_correct",
    needsHumanReview |-> FALSE]}

SynthesisConflicts ==
  {[resolution |-> "manual_correct", finalRecommendedAnswer |-> "A",
    conflictType |-> "ai_error", explanation |-> "why",
    escalateToHuman |-> FALSE],
   [resolution |-> "genuinely_ambiguous", finalRecommendedAnswer |-> "B",
    conflictType |-> "ambiguous_question", explanation |-> "why",
    escalateToHuman |-> TRUE, escalationReason |-> "law changed"],
   [resolution |-> "ai_correct", conflictType |-> "manual_error",
    explanation |-> "why", escalateToHuman |-> FALSE]}

SynthesisObjects(p) ==
  CASE p = ORCH -> SynthesisPlans
    [] p = AV -> SynthesisAnswers
    [] p = CA -> SynthesisConflicts
    [] p = DR -> [difficulty : {"Hard"}, reasoning : {"multi-step"},
                  currentRatingCorrect : BOOLEAN,
                  suggestedChange : {"change to Hard"}]
    [] p = UC -> [belongsInUnit : BOOLEAN, confidence : {"high"},
                  reasoning : {"topic"}, suggestedUnit : {"U2"},
                  questionType : {"Static Question"}]
    [] p = EC -> [quality : {"Good", "Poor"}, score : {3},
                  missingElements : {Array(1)},
                  improvementSuggestion : {"cite the rule"},
                  needsCalculation : {FALSE}]
                 \cup {[quality |-> "Good", score |-> 8,
                        missingElements |-> NotArray,
                        improvementSuggestion |-> "none",
                        needsCalculation |-> FALSE]}
    [] p = MT -> MemoryObjects
    [] p = CC -> [requiresCalculation : BOOLEAN, calculationSteps : {"steps"},
                  thresholdsInvolved : {Array(1)}, formulaUsed : {"f"}]

\* every call is answered with one of these objects, except that a call
\* of the verifier or of the analyzer may also fail
SynthesisRemote ==
  [p \in Processes |->
     {Success(Bare(o)) : o \in SynthesisObjects(p)}
     \cup (IF p \in {AV, CA} THEN {Failure("TransportError")} ELSE {})]

InitSynthesis ==
  InitWith(SynthesisQuestions, {[groq |-> TRUE, openrouter |-> TRUE]})
NextSynthesis == Step(SynthesisRemote)
SpecSynthesis == InitSynthesis /\ [][NextSynthesis]_vars

\* ---------------------------------------------------- POST /api/review-all
\* Largest number of elements of req.body.questions.
MaxBatchLen == 2

\* The elements a batch may hold: two Question records, null, and an
\* object without a question text.
BatchQuestion1 ==
  [rightOption |-> "A", aiAnswer |-> "B", finalAnswer |-> "A"]
    @@ Columns(<<"deduct", "$", "meals">>, "because")
BatchQuestion2 ==
  [rightOption |-> "A", aiAnswer |-> "A", finalAnswer |-> "A"]
    @@ [Columns(<<"filing", "deadline">>, "") EXCEPT !.code = "Q2"]
NoText == [code |-> "Q3"]
BatchElements == {BatchQuestion1, BatchQuestion2, Null, NoText}

Batches ==
  UNION {[1..n -> BatchElements] : n \in 0..MaxBatchLen}

\* q.code and q.question.substring(0, 80) throw a TypeError
ProgressThrows(q) == q = Null \/ "question" \notin DOMAIN q

\* an event of the response stream
Event(type, index) == [type |-> type, index |-> index]

\* the request arrives
InitBatch ==
  /\ questions \in Batches
  /\ keys = [groq |-> TRUE, openrouter |-> TRUE]
  /\ idx = 0 /\ results = <<>> /\ events = <<>>
  /\ batchPc = "received"
  /\ raw = <<>> /\ parseResult = Null
  /\ responses = NoResponses
  /\ question = Null
  /\ phase = "none"
  /\ plan = Null
  /\ pc = [a \in Agents |-> "idle"]
  /\ res = [a \in Agents |-> Null]
  /\ calls = [p \in Processes |-> <<>>]
  /\ agentLog = <<>>
  /\ review = Null

\* the handler up to the loop: 400 for a missing or empty list, else the
\* 'start' event
ReviewAllStart ==
  /\ batchPc = "received"
  /\ IF Len(questions) = 0
     THEN /\ batchPc' = "rejected"
          /\ events' = events
     ELSE /\ batchPc' = "loop"
          /\ events' = Append(events, Event("start", Len(questions)))
  /\ UNCHANGED <<question, keys, phase, plan, pc, res, calls, agentLog,
                 review, questions, idx, results>>

\* the handler is at the head of the loop
AtLoopHead == batchPc = "loop"

\* one iteration up to its await: the 'progress' event, built outside the
\* try block, and the call of reviewQuestion(q)
ReviewAllProgress ==
  /\ AtLoopHead
  /\ idx < Len(questions)
  /\ LET q == questions[idx + 1]
     IN IF ProgressThrows(q)
        THEN /\ batchPc' = "aborted"
             /\ UNCHANGED <<question, phase, plan, pc, res, calls, agentLog,
                            review, events>>
        ELSE /\ batchPc' = "reviewing"
             /\ events' = Append(events, Event("progress", idx))
             /\ question' = q
             /\ phase' = "start"
             /\ plan' = Null
             /\ pc' = [a \in Agents |-> "idle"]
             /\ res' = [a \in Agents |-> Null]
             /\ calls' = [p \in Processes |-> <<>>]
             /\ agentLog' = <<>>
             /\ review' = Null
  /\ UNCHANGED <<keys, questions, idx, results>>

\* (variant: results are numbered from one)
IndexedFromOne(k, r) == [index |-> k + 1] @@ r

\* { index: i, ...result }
Indexed(k, r) == [index |-> k] @@ r

\* the result pushed by the catch branch of the loop
BatchErrorResult(msg) ==
  [status |-> "error", needsHuman |-> TRUE,
   queries |-> <<Notice("Error", msg)>>]

\* one iteration from the resolution of reviewQuestion(q): the result is
\* pushed with its index, the log lines and 'question-done' are sent, or
\* the catch branch pushes an error result; then the delay, except after
\* the last question
ReviewAllCollect ==
  /\ batchPc = "reviewing"
  /\ phase = "returned"
  /\ IF review.status = "rejected"
     THEN /\ events' = Append(events, Event("question-error", idx))
          /\ results' = Append(results,
                               Indexed(idx, BatchErrorResult(review.message)))
     ELSE /\ events' = events \o <<Event("log", idx), Event("question-done", idx)>>
          /\ results' = Append(results, Indexed(idx, review))
  /\ IF idx < Len(questions) - 1
     THEN batchPc' = "delay" /\ idx' = idx
     ELSE batchPc' = "loop" /\ idx' = idx + 1
  /\ phase' = "none"
  /\ UNCHANGED <<question, keys, plan, pc, res, calls, agentLog, review,
                 questions>>

\* the 400 ms timer fires
ReviewAllDelay ==
  /\ batchPc = "delay"
  /\ batchPc' = "loop"
  /\ idx' = idx + 1
  /\ UNCHANGED <<question, keys, phase, plan, pc, res, calls, agentLog,
                 review, questions, results, events>>

\* after the loop: the 'complete' event and res.end()
ReviewAllComplete ==
  /\ AtLoopHead
  /\ idx = Len(questions)
  /\ events' = Append(events, Event("complete", Len(questions)))
  /\ batchPc' = "complete"
  /\ UNCHANGED <<question, keys, phase, plan, pc, res, calls, agentLog,
                 review, questions, idx, results>>

\* what the providers answer during a batch: the orchestrator's call fails,
\* so that every review runs the default plan; the agents answer, the
\* Explanation Critic with or without an array of missing elements
BatchRemote ==
  [p \in Processes |->
     CASE p = ORCH -> {Failure("TransportError")}
       [] p = EC -> {Success(Bare(o)) : o \in ExplanationObjects}
       [] OTHER -> {Success(Bare(o)) : o \in Objects(p)}]

NextBatch ==
  \/ ReviewAllStart /\ UNCHANGED <<parserVars, responses>>
  \/ ReviewAllProgress /\ UNCHANGED <<parserVars, responses>>
  \/ batchPc = "reviewing" /\ Step(BatchRemote)
  \/ ReviewAllCollect /\ UNCHANGED <<parserVars, responses>>
  \/ ReviewAllDelay /\ UNCHANGED <<parserVars, responses>>
  \/ ReviewAllComplete /\ UNCHANGED <<parserVars, responses>>
SpecBatch == InitBatch /\ [][NextBatch]_vars

\* ------------------------------------------------------ parseJSON alone
\* Largest number of tokens of a reasoning trace or of a text without an
\* object.
MaxTextLen == 2

SeqsUpTo(S, n) == UNION {[1..m -> S] : m \in 0..n}

\* the structured records whose texts are parseResult
ParserObjects ==
  {EmptyObject} \cup MemoryObjects \cup UnitObjects \cup SynthesisConflicts

\* reasoning traces: any content, braces included
Reasonings == SeqsUpTo({PROSE, LBRACE, RBRACE}, MaxTextLen)

\* text t in a fenced block, preceded by the reasoning block with content r
Wrap(r, t) ==
  <<THINK_OPEN>> \o r \o <<THINK_CLOSE, FENCE_JSON>> \o t \o <<FENCE>>

\* the texts given to parseJSON: a record, bare or wrapped; a text with no
\* opening or no closing brace; a text whose braces are all inside a
\* reasoning block, alone or before a fenced text without braces
ParserTexts ==
  {Bare(o) : o \in ParserObjects}
  \cup {Wrap(r, Bare(o)) : r \in Reasonings, o \in ParserObjects}
  \cup SeqsUpTo({PROSE, LBRACE}, MaxTextLen)
  \cup SeqsUpTo({PROSE, RBRACE}, MaxTextLen)
  \cup {Wrap(r, <<PROSE>>) : r \in Reasonings}

InitParser ==
  /\ raw \in ParserTexts
  /\ parseResult = Null
  /\ responses = NoResponses
  /\ keys = [groq |-> TRUE, openrouter |-> TRUE]
  /\ question = Null
  /\ phase = "none"
  /\ plan = Null
  /\ pc = [a \in Agents |-> "idle"]
  /\ res = [a \in Agents |-> Null]
  /\ calls = [p \in Processes |-> <<>>]
  /\ agentLog = <<>>
  /\ review = Null
  /\ questions = <<>> /\ idx = 0 /\ results = <<>> /\ events = <<>>
  /\ batchPc = "none"

\* parseJSON(raw) returns or throws
Parse ==
  /\ parseResult = Null
  /\ parseResult' = parseJSON(raw)
  /\ UNCHANGED <<question, keys, phase, plan, pc, res, calls, agentLog,
                 review, batchVars, raw, responses>>

NextParser == Parse
SpecParser == InitParser /\ [][NextParser]_vars

\* ------------------------------------ reviews with answers fixed beforehand
\* The agents of a stage run concurrently.  Here the outcome of every
\* request is fixed before the review starts, so that the behaviours from
\* one initial state differ in the order of the agents' steps only.
AllAgentsPlan ==
  [agents |-> Agents, reasoning |-> "r", hasAnswerConflict |-> FALSE,
   isNumerical |-> FALSE]
NoVerifierPlan ==
  [agents |-> {DR, UC, MT}, reasoning |-> "r", hasAnswerConflict |-> FALSE,
   isNumerical |-> TRUE]

FixedAnswer ==
  [correctAnswer |-> "B", confidence |-> "high", verdict |-> "ai_correct",
   reasoning |-> "rule", needsHumanReview |-> FALSE]

NotOk == Failure("TransportError")

\* the outcome of the single request of an agent: refused, or answered
\* with one of the objects of S
Outcomes(S) == {<<NotOk>>} \cup {<<Success(Bare(o))>> : o \in S}

\* the outcomes of the verifier's requests: the first is answered; the
\* first is refused and the second answered; the first answer does not
\* parse and the second request, to OpenRouter, is answered; all refused
FixedAnswers ==
  {<<Success(Bare(FixedAnswer)), NotOk, NotOk>>,
   <<NotOk, Success(Fenced(FixedAnswer)), NotOk>>,
   <<Success(<<PROSE>>), Success(Bare(FixedAnswer)), NotOk>>,
   <<NotOk, NotOk, NotOk>>}

FixedResponses ==
  {[p \in Processes |->
      CASE p = ORCH -> o
        [] p = AV -> v
        [] p = CA -> c
        [] p = DR -> d
        [] p = UC -> u
        [] p = EC -> e
        [] p = MT -> m
        [] p = CC -> k] :
     o \in Outcomes({AllAgentsPlan, NoVerifierPlan}),
     v \in FixedAnswers,
     c \in Outcomes(ConflictObjects),
     d \in Outcomes(DifficultyObjects),
     u \in Outcomes(UnitObjects),
     e \in Outcomes(ExplanationObjects),
     m \in {<<Success(Bare(x))>> : x \in MemoryObjects},
     k \in Outcomes(CalculationObjects)}

\* the answer to the request in flight of process p: the one fixed for its
\* n-th request, n the number of calls p has made
FixedRemote ==
  [p \in Processes |->
     IF calls[p] = <<>> THEN {} ELSE {responses[p][Len(calls[p])]}]

InterleaveQuestions ==
  {[rightOption |-> "A", aiAnswer |-> "A", finalAnswer |-> "A"]
     @@ Columns(<<"filing", "deadline">>, "because"),
   [rightOption |-> "A", aiAnswer |-> "B", finalAnswer |-> "A"]
     @@ Columns(<<"deduct", "$", "meals">>, "")}

InitInterleave ==
  /\ question \in InterleaveQuestions
  /\ keys = [groq |-> TRUE, openrouter |-> TRUE]
  /\ responses \in FixedResponses
  /\ phase = "start"
  /\ plan = Null
  /\ pc = [a \in Agents |-> "idle"]
  /\ res = [a \in Agents |-> Null]
  /\ calls = [p \in Processes |-> <<>>]
  /\ agentLog = <<>>
  /\ review = Null
  /\ questions = <<>> /\ idx = 0 /\ results = <<>> /\ events = <<>>
  /\ batchPc = "none"
  /\ raw = <<>> /\ parseResult = Null
NextInterleave == Step(FixedRemote)
SpecInterleave == InitInterleave /\ [][NextInterleave]_vars

\* ------------------------------------------- reviews whose calls settle
FixedCritique ==
  [quality |-> "Poor", score |-> 3, missingElements |-> Array(1),
   improvementSuggestion |-> "cite the rule", needsCalculation |-> FALSE]

\* A request is answered with one object; one of the orchestrator, of the
\* Answer Verifier, of the Conflict Analyzer or of the Explanation Critic
\* may also be refused.
LiveRemote ==
  [p \in Processes |->
     (IF p \in {ORCH, AV, CA, EC} THEN {NotOk} ELSE {})
     \cup {Success(Bare(o)) :
             o \in CASE p = ORCH -> {AllAgentsPlan}
                     [] p = AV -> {FixedAnswer}
                     [] p = EC -> {FixedCritique}
                     [] OTHER -> Objects(p)}]

\* a step of the review
LiveAction(A) == A /\ UNCHANGED <<batchVars, parserVars, responses>>

\* (variant: a request may stay without an answer for ever)
RemoteMayHang == TRUE

\* a call in flight settles: fetch resolves or rejects
SomeCallSettles(R) ==
  \/ OrchestrateSettle(R)
  \/ AnswerVerifierSettle(R)
  \/ DifficultyRaterSettle(R)
  \/ UnitCheckerSettle(R)
  \/ ConflictAnalyzerSettle(R)
  \/ ExplanationCriticSettle(R)
  \/ MemoryTrickGeneratorSettle(R)
  \/ CalculationCheckerSettle(R)

\* a continuation of reviewQuestion runs: its promise has resolved
CoordinatorStep ==
  OrchestrateStart \/ Stage1Start \/ Stage2Start \/ Synthesize

\* calls do not stay in flight for ever: while some call is in flight, a
\* call settles
RemoteSettles == WF_vars(LiveAction(SomeCallSettles(LiveRemote)))

\* the event loop runs the continuations that are ready
CoordinatorRuns == WF_vars(LiveAction(CoordinatorStep))

\* process.env: both keys set, or the Groq key unset
LiveKeys ==
  {[groq |-> TRUE, openrouter |-> TRUE], [groq |-> FALSE, openrouter |-> TRUE]}

InitLive == InitWith(InterleaveQuestions, LiveKeys)
NextLive == Step(LiveRemote)
SpecLive == InitLive /\ [][NextLive]_vars /\ CoordinatorRuns /\ RemoteSettles

\* ============================================================== properties
Ran(a) == pc[a] \in {"await", "done"}
LogHas(who, what) == \E i \in 1..Len(agentLog) : agentLog[i] = Line(who, what)
AllCallsFailed(p) ==
  /\ calls[p] # <<>>
  /\ \A i \in 1..Len(calls[p]) : calls[p][i].outcome = "failed"
AnswersAgree ==
  /\ question.rightOption = question.aiAnswer
  /\ question.rightOption = question.finalAnswer
Stage2Begun == phase \in {"stage2", "returned"}
\* the fields of a ReviewResult that hold what the agents returned
AgentResultFields ==
  {"answer", "conflict", "unit", "explanation", "calculation", "memory",
   "difficultyChanged", "plan"}

\* C1: reviewQuestion never throws past its boundary: whatever the remote
\* calls do, it returns a ReviewResult, and the status of that result is
\* 'done' or 'error'; no agent's promise is rejected on the way.
C1_ReviewNeverThrows ==
  /\ (phase = "returned") <=> (review # Null)
  /\ review # Null => review.status \in {"done", "error"}
  /\ \A a \in Agents : pc[a] = "done" => res[a] # Null

\* C1 witness: a review in which the synthesis threw and the result is the
\* error result.
C1_Witness ==
  /\ phase = "returned"
  /\ JoinThrows(res[EC], "missingElements")
  /\ review.status = "error"

\* C2 (as claimed): when the orchestrator's call or parse fails, the fixed
\* default plan is used and the review completes with status 'done' and
\* the results of the four always-on agents populated.
C2_DefaultPlanReviewCompletes ==
  (phase = "returned" /\ LogHas(ORCH, "warn")) =>
    /\ plan.agents = {AV, DR, UC, EC, MT}
    /\ plan.hasAnswerConflict = (question.rightOption # question.aiAnswer)
    /\ plan.isNumerical = (\E i \in 1..Len(question.question) :
                             question.question[i] \in {"$", "%", "percent",
                                                       "million", "thousand"})
    /\ \A a \in {AV, DR, UC, MT} : res[a] # Null
    /\ review.status = "done"
    /\ review.answer # EmptyObject
    /\ review.unit # EmptyObject
    /\ review.memory # EmptyObject

\* C3: an agent all of whose calls failed (the call threw or its text did
\* not parse) returns the degraded result of its kind, a warning line is
\* in the log and no success line is; the agent's promise is not rejected.
C3_DegradedDefaultAndWarning ==
  \A a \in Agents :
    (pc[a] = "done" /\ AllCallsFailed(a)) =>
      /\ res[a] # Null
      /\ LogHas(a, "warn")
      /\ ~LogHas(a, "ok") /\ ~LogHas(a, "ok-fallback")
      /\ CASE a = AV -> /\ res[a].correctAnswer = "?"
                        /\ res[a].confidence = "low"
                        /\ res[a].verdict = "uncertain"
                        /\ res[a].needsHumanReview
                        /\ res[a].humanReviewReason \in ErrorMessages
           [] a = CA -> /\ res[a].finalRecommendedAnswer = "?"
                        /\ res[a].resolution = "genuinely_ambiguous"
                        /\ res[a].escalateToHuman
                        /\ res[a].escalationReason \in ErrorMessages
           [] a = DR -> /\ res[a].difficulty = question.difficulty
                        /\ res[a].currentRatingCorrect
                        /\ res[a].suggestedChange = "keep"
           [] a = UC -> /\ res[a].belongsInUnit
                        /\ res[a].confidence = "low"
                        /\ res[a].suggestedUnit = question.unit
           [] a = EC -> /\ res[a].quality = "Unknown"
                        /\ res[a].score = 5
           [] a = MT -> /\ res[a].memoryTrick = ""
                        /\ res[a].type = "none"
           [] a = CC -> /\ ~res[a].requiresCalculation
                        /\ res[a].calculationSteps = ""

\* C3 witness: the Answer Verifier has returned after its three calls
\* failed although both providers hold a key, and so has the Conflict
\* Analyzer after its single call failed.
C3_Witness ==
  /\ keys["groq"] /\ keys["openrouter"]
  /\ pc[AV] = "done" /\ AllCallsFailed(AV) /\ Len(calls[AV]) = 3
  /\ pc[CA] = "done" /\ AllCallsFailed(CA)

\* C4 (as claimed): every agent issues at most two inference calls per
\* invocation, and an agent that returns its degraded result has made two
\* calls, the primary one and exactly one fallback.
C4_ExactlyOneFallbackHop ==
  \A a \in Agents :
    /\ Len(calls[a]) <= 2
    /\ (pc[a] = "done" /\ AllCallsFailed(a)) => Len(calls[a]) = 2

\* C5: no Stage-2 agent is invoked, issues a call or writes a log line
\* before every Stage-1 agent has settled, so that in the log every line
\* of a Stage-2 agent comes after every line of a Stage-1 agent.
C5_Stage2AfterStage1 ==
  /\ (\E a \in Stage2Agents : pc[a] # "idle" \/ calls[a] # <<>>)
       => \A b \in Stage1Agents : pc[b] \in {"skipped", "done"}
  /\ \A i, j \in 1..Len(agentLog) :
       (agentLog[i].who \in Stage2Agents /\ agentLog[j].who \in Stage1Agents)
         => j < i

\* C5 witness: the three Stage-1 agents ran and the Unit Checker finished
\* before the Answer Verifier did; a Stage-2 agent is now awaiting its call.
C5_Witness ==
  /\ \A b \in Stage1Agents : pc[b] = "done"
  /\ \E i, j \in 1..Len(agentLog) :
       /\ i < j
       /\ agentLog[i].who = UC /\ agentLog[i].what # "start"
       /\ agentLog[j].who = AV /\ agentLog[j].what # "start"
  /\ pc[CA] = "await"
  /\ pc[MT] = "await"

\* a disagreement as the coordinator detects it
Disagreement ==
  \/ question.rightOption # question.aiAnswer
  \/ question.rightOption # question.finalAnswer
  \/ (res[AV] # Null /\ "verdict" \in DOMAIN res[AV]
      /\ res[AV].verdict = "uncertain")
PlanMarksNumeric == "isNumerical" \in DOMAIN plan /\ plan.isNumerical

\* C6 (as claimed): for every plan, the Conflict Analyzer is run whenever
\* a disagreement is detected and the Calculation Checker is run whenever
\* the plan marks the question numeric.
C6_ForcedAgentsAlwaysRun ==
  Stage2Begun =>
    /\ Disagreement => Ran(CA)
    /\ PlanMarksNumeric => Ran(CC)

\* C6 (amended): for every plan, the Conflict Analyzer is run whenever a
\* disagreement is detected and the Answer Verifier was run (the plan lists
\* answer_verifier), and the Calculation Checker is run whenever the plan
\* marks the question numeric.
C6_ForcedAgentsRunGivenVerifier ==
  Stage2Begun =>
    /\ (Disagreement /\ AV \in plan.agents) => Ran(CA)
    /\ PlanMarksNumeric => Ran(CC)

\* C6 witness: a model-made plan that lists the Answer Verifier but
\* neither forced agent; the answers disagree, the plan marks the question
\* numeric, and both forced agents were run.
C6_Witness ==
  /\ Stage2Begun
  /\ LogHas(ORCH, "plan")
  /\ AV \in plan.agents /\ CA \notin plan.agents /\ CC \notin plan.agents
  /\ question.rightOption # question.aiAnswer
  /\ PlanMarksNumeric
  /\ Ran(CA) /\ Ran(CC)

\* C7: when the three answers of the question agree and the verifier's
\* verdict is not 'uncertain', the result has hasConflict false, and unless
\* the plan lists conflict_analyzer the Conflict Analyzer is not run: it
\* makes no call and writes no log line.
C7_NoConflictNoAnalyzer ==
  (AnswersAgree /\ Str(res[AV], "verdict") # "uncertain") =>
    /\ phase = "returned" => ~review.hasConflict
    /\ (Stage2Begun /\ CA \notin plan.agents) =>
         /\ pc[CA] = "skipped"
         /\ calls[CA] = <<>>
         /\ \A i \in 1..Len(agentLog) : agentLog[i].who # CA

\* C7 witness: a completed review of a question whose answers agree, with
\* a verifier that ran and was not uncertain and a plan without
\* conflict_analyzer.
C7_Witness ==
  /\ phase = "returned" /\ review.status = "done"
  /\ AnswersAgree
  /\ pc[AV] = "done" /\ Str(res[AV], "verdict") = "ai_correct"
  /\ CA \notin plan.agents

\* the question text holds a currency or percent marker
HasCurrencyOrPercent ==
  \E i \in 1..Len(question.question) : question.question[i] \in {"$", "%"}

\* C8 (as claimed): for a numeric question (its text holds a currency or
\* percent marker) and a plan that omits calculation_checker, the
\* Calculation Checker still runs, whether the plan is model-made or the
\* default plan.
C8_NumericQuestionForcesChecker ==
  (Stage2Begun /\ HasCurrencyOrPercent /\ CC \notin plan.agents) => Ran(CC)

\* C8 (amended): for a question that the plan marks numeric and a plan that
\* omits calculation_checker, the Calculation Checker still runs; the
\* default plan marks a question numeric when its text holds a currency or
\* percent marker, so under the default plan the checker runs for every
\* such question.
C8_NumericPlanForcesChecker ==
  /\ (Stage2Begun /\ PlanMarksNumeric /\ CC \notin plan.agents) => Ran(CC)
  /\ (Stage2Begun /\ LogHas(ORCH, "warn") /\ HasCurrencyOrPercent) => Ran(CC)

\* C8 witness: the default plan, which omits calculation_checker, on a
\* question with a currency marker; the Calculation Checker was run.
C8_Witness ==
  /\ Stage2Begun /\ LogHas(ORCH, "warn")
  /\ HasCurrencyOrPercent
  /\ CC \notin plan.agents
  /\ Ran(CC)

\* C9: for a question without explanation text the Explanation Critic,
\* when run, returns at once quality 'Missing', score 0 and a non-empty
\* improvement suggestion, and issues no inference call.
C9_MissingExplanationNoCall ==
  (question.finalExplanation = "" /\ question.feedback = "") =>
    /\ calls[EC] = <<>>
    /\ pc[EC] # "await"
    /\ pc[EC] = "done" =>
         /\ res[EC].quality = "Missing"
         /\ res[EC].score = 0
         /\ res[EC].improvementSuggestion # ""

\* C9 witness: the Explanation Critic has returned for a question without
\* explanation that the plan sent to it.
C9_Witness ==
  /\ Stage2Begun
  /\ question.finalExplanation = "" /\ question.feedback = ""
  /\ EC \in plan.agents
  /\ pc[EC] = "done"

\* C10: when a step of the coordinator throws, the ReviewResult has status
\* 'error' and needsHuman true, its query summary is the single notice
\* that names the system error, and it carries no agent result field.
C10_ErrorResultShape ==
  /\ (phase = "returned"
      /\ (\/ ("missingElements" \in DOMAIN res[EC]
              /\ res[EC].missingElements.type # "array")
          \/ ("thresholdsInvolved" \in DOMAIN res[CC]
              /\ res[CC].thresholdsInvolved.type # "array")))
       => review.status = "error"
  /\ (review # Null /\ review.status = "error") =>
       /\ review.needsHuman
       /\ Len(review.queries) = 1
       /\ review.queries[1].kind = "SYSTEM ERROR"
       /\ review.queries[1].detail \in ErrorMessages
       /\ DOMAIN review \cap AgentResultFields = {}

\* C10 witness: a review whose agents all ran and returned, ended by the
\* error result.
C10_Witness ==
  /\ review # Null /\ review.status = "error"
  /\ pc[AV] = "done" /\ pc[EC] = "done"
  /\ LogHas("review", "error")

\* the notices that ask for a human review: the escalation notice of a
\* completed review ("HUMAN REVIEW NEEDED: <reason>") and the notice of a
\* failed one ("SYSTEM ERROR - needs human review: <message>")
HumanReviewNotices == {"HUMAN REVIEW NEEDED", "SYSTEM ERROR"}

\* C11: every ReviewResult carries a non-empty query summary, and whenever
\* needsHuman is true in it, with status 'done' or 'error', the first
\* notice of the summary is a human-review notice that quotes a non-empty
\* reason.
C11_SummaryNamesHumanReviewFirst ==
  review # Null =>
    /\ Len(review.queries) >= 1
    /\ review.needsHuman =>
         /\ review.queries[1].kind \in HumanReviewNotices
         /\ review.queries[1].detail \notin {"", Undefined}
         /\ \A i \in 2..Len(review.queries) :
              review.queries[i].kind \notin HumanReviewNotices

\* C11 witness: a completed review that needs a human because the verifier
\* was uncertain without giving a reason; the escalation notice comes
\* first and other notices follow it.
C11_Witness ==
  /\ review # Null /\ review.status = "done"
  /\ review.needsHuman
  /\ "humanReviewReason" \notin DOMAIN res[AV]
  /\ res[CA] # Null /\ "escalationReason" \notin DOMAIN res[CA]
  /\ Len(review.queries) >= 3
  /\ review.queries[1].kind = "HUMAN REVIEW NEEDED"

\* agent a ran and its result has field f with value v
Gave(a, f, v) == res[a] # Null /\ f \in DOMAIN res[a] /\ res[a][f] = v

\* C12: in a completed review needsHuman is true if the Answer Verifier
\* asked for a human review, or the Conflict Analyzer asked for escalation,
\* or the verifier's confidence is 'low', or its verdict is 'uncertain',
\* and false when none of the four holds, an agent that did not run
\* contributing nothing.
C12_NeedsHumanIffOneOfFour ==
  (review # Null /\ review.status = "done") =>
    review.needsHuman = (\/ Gave(AV, "needsHumanReview", TRUE)
                         \/ Gave(CA, "escalateToHuman", TRUE)
                         \/ Gave(AV, "confidence", "low")
                         \/ Gave(AV, "verdict", "uncertain"))

\* C12 witness: a completed review that needs a human only because the
\* Conflict Analyzer, answering its call, asked for escalation.
C12_Witness ==
  /\ review # Null /\ review.status = "done"
  /\ review.needsHuman
  /\ Gave(AV, "needsHumanReview", FALSE)
  /\ Gave(AV, "confidence", "high")
  /\ Gave(AV, "verdict", "manual_correct")
  /\ Gave(CA, "escalateToHuman", TRUE)
  /\ LogHas(CA, "ok")

\* agent a ran and its result gives a non-empty value for field f
GaveSome(a, f) == res[a] # Null /\ f \in DOMAIN res[a] /\ res[a][f] # ""

\* C13: in a completed review finalAnswer is the option recommended by the
\* Conflict Analyzer if it ran and gave one, else the Answer Verifier's
\* answer if it ran and gave one, else the question's final answer if that
\* is not empty, else the question's manual answer.
C13_FinalAnswerPrecedence ==
  (review # Null /\ review.status = "done") =>
    review.finalAnswer =
      IF GaveSome(CA, "finalRecommendedAnswer")
      THEN res[CA].finalRecommendedAnswer
      ELSE IF GaveSome(AV, "correctAnswer")
      THEN res[AV].correctAnswer
      ELSE IF question.finalAnswer # ""
      THEN question.finalAnswer
      ELSE question.rightOption

\* C13 witness: both agents ran and answered their calls, the analyzer
\* recommends an option other than the verifier's, and the result carries
\* the analyzer's.
C13_Witness ==
  /\ review # Null /\ review.status = "done"
  /\ LogHas(AV, "ok") /\ LogHas(CA, "ok")
  /\ GaveSome(AV, "correctAnswer")
  /\ GaveSome(CA, "finalRecommendedAnswer")
  /\ res[CA].finalRecommendedAnswer # res[AV].correctAnswer
  /\ review.finalAnswer = res[CA].finalRecommendedAnswer

\* a review in which neither agent gave an answer and the question has no
\* final answer: the manual answer is the result
C13_ManualAnswerReached ==
  /\ review # Null /\ review.status = "done"
  /\ res[AV] # Null /\ ~GaveSome(AV, "correctAnswer")
  /\ res[CA] # Null /\ ~GaveSome(CA, "finalRecommendedAnswer")
  /\ question.finalAnswer = ""
  /\ review.finalAnswer = question.rightOption

\* C14: in a completed review hasConflict is true exactly when the manual
\* answer differs from the AI answer, or from the final answer, or the
\* Answer Verifier's verdict is 'uncertain'; the value reported in the
\* result is the one that gates the forced run of the Conflict Analyzer:
\* an analyzer that the plan does not list runs only if it is true, and
\* runs if it is true and the verifier ran.
C14_HasConflictExactly ==
  /\ (review # Null /\ review.status = "done") =>
       /\ review.hasConflict =
            (\/ question.rightOption # question.aiAnswer
             \/ question.rightOption # question.finalAnswer
             \/ Gave(AV, "verdict", "uncertain"))
       /\ CA \notin plan.agents =>
            (Ran(CA) <=> (review.hasConflict /\ res[AV] # Null))
  /\ (Stage2Begun /\ CA \notin plan.agents /\ Ran(CA)) => Disagreement

\* C14 witness: a completed review of a question whose three answers
\* agree; the verifier was uncertain, hasConflict is reported true and the
\* Conflict Analyzer, which the plan does not list, was run.
C14_Witness ==
  /\ review # Null /\ review.status = "done"
  /\ AnswersAgree
  /\ Gave(AV, "verdict", "uncertain")
  /\ CA \notin plan.agents
  /\ pc[CA] = "done"
  /\ review.hasConflict

\* the question and the two results of the end-to-end example
ExampleQuestion ==
  /\ question.rightOption = "A"
  /\ question.aiAnswer = "B"
  /\ question.finalAnswer = "A"
ExampleVerifier ==
  /\ Gave(AV, "verdict", "manual_correct")
  /\ Gave(AV, "confidence", "high")
  /\ Gave(AV, "needsHumanReview", FALSE)
ExampleAnalyzer ==
  /\ Gave(CA, "resolution", "manual_correct")
  /\ Gave(CA, "finalRecommendedAnswer", "A")
  /\ Gave(CA, "escalateToHuman", FALSE)

\* C15 (as claimed): for a question with manual answer 'A', AI answer 'B'
\* and final answer 'A', a verifier that returns 'manual_correct' with
\* confidence 'high' and no escalation, and an analyzer that resolves
\* 'manual_correct' recommending 'A' without escalation, the ReviewResult
\* has hasConflict true, needsHuman false and finalAnswer 'A', and the
\* Conflict Analyzer ran whether or not the plan lists it.
C15_EndToEndExample ==
  /\ (Stage2Begun /\ ExampleQuestion /\ ExampleVerifier) => Ran(CA)
  /\ (review # Null /\ ExampleQuestion /\ ExampleVerifier /\ ExampleAnalyzer)
       => /\ review.hasConflict
          /\ ~review.needsHuman
          /\ review.finalAnswer = "A"

\* the example's outcome in the reviews that complete
C15_ExampleWhenCompleted ==
  /\ (Stage2Begun /\ ExampleQuestion /\ ExampleVerifier) => Ran(CA)
  /\ (review # Null /\ review.status = "done"
      /\ ExampleQuestion /\ ExampleVerifier /\ ExampleAnalyzer)
       => /\ review.hasConflict
          /\ ~review.needsHuman
          /\ review.finalAnswer = "A"

\* a completed review of the example under a plan without conflict_analyzer
C15_ExampleCompleted ==
  /\ review # Null /\ review.status = "done"
  /\ ExampleQuestion /\ ExampleVerifier /\ ExampleAnalyzer
  /\ CA \notin plan.agents

\* the place of each notice in the fixed order
NoticeRank ==
  [k \in {"HUMAN REVIEW NEEDED", "Answer conflict", "Difficulty",
          "Unit mismatch", "Explanation", "Add calculation", "Kept as is"} |->
     CASE k = "HUMAN REVIEW NEEDED" -> 1
       [] k = "Answer conflict" -> 2
       [] k = "Difficulty" -> 3
       [] k = "Unit mismatch" -> 4
       [] k = "Explanation" -> 5
       [] k = "Add calculation" -> 6
       [] k = "Kept as is" -> 7]
HasNotice(k) == \E i \in 1..Len(review.queries) : review.queries[i].kind = k

\* the order of the notices, and 'kept as is' alone or not at all
NoticesInOrder ==
  /\ \A i \in 1..Len(review.queries) : review.queries[i].kind \in DOMAIN NoticeRank
  /\ \A i, j \in 1..Len(review.queries) :
       i < j => NoticeRank[review.queries[i].kind] < NoticeRank[review.queries[j].kind]
  /\ HasNotice("Kept as is") <=>
       ~\E k \in DOMAIN NoticeRank \ {"Kept as is"} : HasNotice(k)

\* C16 (as claimed): the query summary of a completed review lists its
\* notices in the order escalation, conflict explanation, difficulty
\* change, unit mismatch, explanation improvement, calculation addition;
\* each is present exactly when its condition holds (a human is needed; a
\* conflict was found and the Conflict Analyzer ran; the rater disagrees
\* with the rating; the unit checker disagrees with the unit; the
\* explanation is 'Needs Improvement' or 'Poor'; a calculation is
\* required); 'kept as is' is emitted exactly when none of the six applies
\* and never together with any of them.
C16_NoticesInOrderWhenTheyApply ==
  (review # Null /\ review.status = "done") =>
    /\ NoticesInOrder
    /\ HasNotice("HUMAN REVIEW NEEDED") <=> review.needsHuman
    /\ HasNotice("Answer conflict") <=> (review.hasConflict /\ res[CA] # Null)
    /\ HasNotice("Difficulty") <=> Gave(DR, "currentRatingCorrect", FALSE)
    /\ HasNotice("Unit mismatch") <=> Gave(UC, "belongsInUnit", FALSE)
    /\ HasNotice("Explanation") <=>
         (Gave(EC, "quality", "Needs Improvement") \/ Gave(EC, "quality", "Poor"))
    /\ HasNotice("Add calculation") <=> Gave(CC, "requiresCalculation", TRUE)

\* what holds of the summary of every completed review: the order, 'kept
\* as is' alone, and the conditions of the notices other than the unit
\* mismatch
C16_OrderAndOtherNotices ==
  (review # Null /\ review.status = "done") =>
    /\ NoticesInOrder
    /\ HasNotice("HUMAN REVIEW NEEDED") <=> review.needsHuman
    /\ HasNotice("Answer conflict") <=> (review.hasConflict /\ res[CA] # Null)
    /\ HasNotice("Difficulty") <=> Gave(DR, "currentRatingCorrect", FALSE)
    /\ Gave(UC, "belongsInUnit", FALSE) => HasNotice("Unit mismatch")
    /\ HasNotice("Explanation") <=>
         (Gave(EC, "quality", "Needs Improvement") \/ Gave(EC, "quality", "Poor"))
    /\ HasNotice("Add calculation") <=> Gave(CC, "requiresCalculation", TRUE)

\* a completed review whose summary is the single 'kept as is' notice
C16_KeptAsIsReached ==
  /\ review # Null /\ review.status = "done"
  /\ review.queries = <<Notice("Kept as is", "")>>

\* a completed review whose summary has the six notices
C16_AllSixReached ==
  /\ review # Null /\ review.status = "done"
  /\ Len(review.queries) = 6

\* every element of the batch is a Question record
BatchOfQuestions ==
  \A k \in 1..Len(questions) :
    /\ questions[k] # Null
    /\ {"code", "question", "rightOption", "aiAnswer"} \subseteq DOMAIN questions[k]
EventAt(p, type, index) == events[p] = [type |-> type, index |-> index]

\* C17: the batch review handles its Questions one after the other: a
\* question's pipeline runs only between its 'progress' event and its
\* result, the pipeline of question i+1 is started only after question i
\* has its result and its 'question-done' or 'question-error' event, each
\* question is started once, and the result for element i carries index i
\* whether its review ended 'done' or 'error'; when the batch of
\* Questions is complete there is exactly one result per element.
C17_BatchSequentialIndexed ==
  BatchOfQuestions =>
    /\ \A k \in 1..Len(results) :
         /\ results[k].index = k - 1
         /\ results[k].status \in {"done", "error"}
    /\ phase \notin {"none", "returned"} =>
         /\ batchPc = "reviewing"
         /\ Len(results) = idx
         /\ question = questions[idx + 1]
    /\ \A p \in 1..Len(events) :
         events[p].type = "progress" =>
           /\ \A n \in 0..(events[p].index - 1) :
                \E r \in 1..(p - 1) :
                  \/ EventAt(r, "question-done", n)
                  \/ EventAt(r, "question-error", n)
           /\ \A r \in 1..(p - 1) : ~EventAt(r, "progress", events[p].index)
    /\ batchPc # "aborted"
    /\ batchPc = "complete" =>
         /\ Len(results) = Len(questions)
         /\ idx = Len(questions)

\* C17 witness: a complete batch of two questions, the first review ended
\* 'error' and the second 'done'.
C17_Witness ==
  /\ batchPc = "complete"
  /\ Len(questions) = 2 /\ Len(results) = 2
  /\ results[1].index = 0 /\ results[1].status = "error"
  /\ results[2].index = 1 /\ results[2].status = "done"

\* element k of the batch is not a Question record
Malformed(k) == questions[k] = Null \/ "question" \notin DOMAIN questions[k]

\* C18 (as claimed): a failure while one question of the batch is
\* processed, a malformed Question record included, stays with that
\* question: the handler goes on, and when the batch is complete the
\* failed element has an error result under its index and every element
\* has a result.
C18_BatchFailureIsolated ==
  /\ batchPc # "aborted"
  /\ batchPc = "complete" =>
       /\ Len(results) = Len(questions)
       /\ \A k \in 1..Len(questions) :
            /\ results[k].index = k - 1
            /\ Malformed(k) => results[k].status = "error"

\* what holds: a review that ends with status 'error' does not stop the
\* batch
C18_ErrorResultIsolated ==
  \A k \in 1..Len(results) :
    (results[k].status = "error" /\ k < Len(questions)
     /\ ~Malformed(k + 1) /\ batchPc \in {"complete", "aborted"})
      => Len(results) > k

\* a batch that stopped at a malformed second element after the first
\* question was reviewed
C18_AbortReached ==
  /\ batchPc = "aborted"
  /\ Len(questions) = 2 /\ Len(results) = 1
  /\ Malformed(2)

\* C19: the parse of a record's text wrapped in a fenced code block and
\* preceded by a reasoning block, whatever the block contains, braces
\* included, returns the record that the parse of the bare text returns;
\* and the parse of a text that has no opening brace or no closing brace
\* outside its reasoning blocks throws.
C19_ParserRoundTrip ==
  parseResult # Null =>
    /\ \A o \in ParserObjects :
         /\ raw = <<LBRACE>> \o (IF o = EmptyObject THEN <<>> ELSE <<Members(o)>>)
                    \o <<RBRACE>>
              => parseResult = [ok |-> TRUE, value |-> o]
         /\ \A r \in Reasonings :
              raw = <<THINK_OPEN>> \o r \o <<THINK_CLOSE, FENCE_JSON, LBRACE>>
                      \o (IF o = EmptyObject THEN <<>> ELSE <<Members(o)>>)
                      \o <<RBRACE, FENCE>>
                => parseResult = [ok |-> TRUE, value |-> o]
    /\ (\A n \in 1..Len(raw) : raw[n] # LBRACE) => ~parseResult.ok
    /\ (\A n \in 1..Len(raw) : raw[n] # RBRACE) => ~parseResult.ok
    /\ (\E r \in Reasonings :
          raw = <<THINK_OPEN>> \o r \o <<THINK_CLOSE, FENCE_JSON, PROSE, FENCE>>)
         => ~parseResult.ok

\* C19 witness: a record parseResult from its text in a fenced block after a
\* reasoning block whose content is an opening and a closing brace.
C19_Witness ==
  /\ parseResult # Null /\ parseResult.ok
  /\ parseResult.value \in SynthesisConflicts
  /\ Len(raw) > 4
  /\ SubSeq(raw, 1, 4) = <<THINK_OPEN, LBRACE, RBRACE, THINK_CLOSE>>

\* a text whose only braces are inside its reasoning block was rejected
C19_RejectReached ==
  /\ parseResult # Null /\ ~parseResult.ok
  /\ raw = <<THINK_OPEN, LBRACE, RBRACE, THINK_CLOSE, FENCE_JSON, PROSE, FENCE>>

\* C20 (as claimed, in the reviews in which the Answer Verifier ran, so
\* that the analyzer has its input): whenever the orchestrator's plan has
\* hasAnswerConflict true, the Conflict Analyzer is run, even if the plan's
\* agent list omits conflict_analyzer.
C20_ConflictFlagForcesAnalyzer ==
  (Stage2Begun /\ res[AV] # Null
   /\ "hasAnswerConflict" \in DOMAIN plan /\ plan.hasAnswerConflict)
    => Ran(CA)

\* a completed review under a plan with hasAnswerConflict true and without
\* conflict_analyzer, in which the verifier ran and the Conflict Analyzer
\* did not
C20_FlagIgnoredReached ==
  /\ review # Null /\ review.status = "done"
  /\ plan.hasAnswerConflict
  /\ CA \notin plan.agents
  /\ pc[AV] = "done" /\ pc[CA] = "skipped"

\* the numeric flag, by contrast, is read
C20_NumericFlagForcesChecker ==
  (Stage2Begun /\ "isNumerical" \in DOMAIN plan /\ plan.isNumerical) => Ran(CC)

\* C21 (as claimed): in a completed review the unit-mismatch notice is in
\* the query summary only if the Unit Checker ran and reported that the
\* question does not belong in its unit; when the Unit Checker did not run
\* and no other notice applies, the summary is the single 'kept as is'
\* notice.
C21_UnitNoticeOnlyFromUnitChecker ==
  (review # Null /\ review.status = "done") =>
    /\ HasNotice("Unit mismatch") => Gave(UC, "belongsInUnit", FALSE)
    /\ (/\ pc[UC] = "skipped"
        /\ ~review.needsHuman
        /\ ~(review.hasConflict /\ res[CA] # Null)
        /\ ~Gave(DR, "currentRatingCorrect", FALSE)
        /\ ~Gave(EC, "quality", "Needs Improvement")
        /\ ~Gave(EC, "quality", "Poor")
        /\ ~Gave(CC, "requiresCalculation", TRUE))
         => review.queries = <<Notice("Kept as is", "")>>

\* a completed review in which the Unit Checker did not run and whose
\* summary is the single unit-mismatch notice, quoting no unit
C21_NoticeWithoutCheckerReached ==
  /\ review # Null /\ review.status = "done"
  /\ pc[UC] = "skipped" /\ UC \notin plan.agents
  /\ review.queries = <<Notice("Unit mismatch", Undefined)>>

\* what holds: a Unit Checker that ran and reported that the question
\* belongs in its unit adds no unit-mismatch notice
C21_NoNoticeWhenCheckerAgrees ==
  (review # Null /\ review.status = "done" /\ Gave(UC, "belongsInUnit", TRUE))
    => ~HasNotice("Unit mismatch")

\* the first call of agent a threw at the key check of callLLM
PrimaryConfigError(a) ==
  /\ calls[a] # <<>>
  /\ ~keys[calls[a][1].provider]
  /\ calls[a][1].outcome = "failed"

\* C22 (as claimed): when the primary call of an agent fails at the key
\* check (the credential is missing or a placeholder), the agent issues no
\* further call and returns its degraded result with a warning line; and a
\* call that fails at the key check sends no request.
C22_ConfigErrorNotRetried ==
  /\ \A a \in Agents :
       PrimaryConfigError(a) =>
         /\ Len(calls[a]) = 1
         /\ pc[a] = "done"
         /\ LogHas(a, "warn")
  /\ \A p \in Processes : \A n \in 1..Len(calls[p]) :
       ~keys[calls[p][n].provider] => ~calls[p][n].sent

\* what holds: the six agents that make a single call do not call again
\* after the key check failed, and no call is sent without a key
C22_SingleCallAgentsNotRetried ==
  /\ \A a \in Agents \ {AV} :
       PrimaryConfigError(a) =>
         /\ Len(calls[a]) = 1
         /\ pc[a] = "done"
         /\ LogHas(a, "warn")
  /\ \A p \in Processes : \A n \in 1..Len(calls[p]) :
       ~keys[calls[p][n].provider] => ~calls[p][n].sent

\* the Answer Verifier was answered by OpenRouter on its third call, after
\* two calls that failed at the key check
C22_RetriedAfterConfigErrorReached ==
  /\ ~keys["groq"] /\ keys["openrouter"]
  /\ pc[AV] = "done"
  /\ Len(calls[AV]) = 3
  /\ PrimaryConfigError(AV)
  /\ calls[AV][2].provider = "groq" /\ ~calls[AV][2].sent
  /\ calls[AV][3].provider = "openrouter" /\ calls[AV][3].outcome = "ok"

\* the text fields of the result of each agent kind
TextFields ==
  [a \in Agents |->
     CASE a = AV -> {"correctAnswer", "confidence", "verdict", "reasoning",
                     "humanReviewReason"}
       [] a = CA -> {"resolution", "finalRecommendedAnswer", "conflictType",
                     "explanation", "escalationReason"}
       [] a = DR -> {"difficulty", "reasoning", "suggestedChange"}
       [] a = UC -> {"confidence", "reasoning", "suggestedUnit", "questionType"}
       [] a = EC -> {"quality", "improvementSuggestion"}
       [] a = MT -> {"memoryTrick", "type", "keyConceptSummary"}
       [] a = CC -> {"calculationSteps", "formulaUsed"}]

\* some text field of the result of agent a holds the message of the error
\* that made it fail
CarriesFailureReason(a) ==
  \E f \in TextFields[a] \cap DOMAIN res[a] : res[a][f] \in ErrorMessages

\* agent a returned after every one of its calls failed
ReturnedDegraded(a) == pc[a] = "done" /\ AllCallsFailed(a)

\* C23 (as claimed): for every agent kind, the degraded result returned
\* after all call attempts failed has a failure-reason field that holds the
\* failure reason, and every confidence or score field of it has its lowest
\* value: confidence 'low', the lowest quality score.
C23_DegradedCarriesReasonAndLowest ==
  \A a \in Agents :
    ReturnedDegraded(a) =>
      /\ CarriesFailureReason(a)
      /\ "confidence" \in DOMAIN res[a] => res[a].confidence = "low"
      /\ "score" \in DOMAIN res[a] => res[a].score <= 1

\* what holds: the degraded results of the Answer Verifier and of the
\* Conflict Analyzer carry the failure reason, and a degraded result that
\* has a confidence field has it 'low'
C23_ReasonOfVerifierAndAnalyzer ==
  \A a \in Agents :
    ReturnedDegraded(a) =>
      /\ a \in {AV, CA} => CarriesFailureReason(a)
      /\ "confidence" \in DOMAIN res[a] => res[a].confidence = "low"

\* the Explanation Critic returned its degraded result, with the score in
\* the middle of the scale and no field that holds the failure reason
C23_MidScoreReached ==
  /\ ReturnedDegraded(EC)
  /\ res[EC].score = 5
  /\ ~CarriesFailureReason(EC)

\* ---- the review as a function of the question and of the fixed answers
\* the plan orchestrate returns
ExpectedPlan ==
  LET p == PlanOf(responses[ORCH][1])
  IN IF p.ok THEN p.value ELSE DefaultPlan

\* the result and the closing log line of answerVerifier
ExpectedAnswer ==
  LET o1 == responses[AV][1]
      r1 == CallAndParse(o1)
      r2 == CallAndParse(responses[AV][2])
      r3 == CallAndParse(responses[AV][3])
  IN IF r1.ok THEN [value |-> r1.value, line |-> "ok"]
     ELSE IF o1.ok
     THEN IF r2.ok THEN [value |-> r2.value, line |-> "ok-fallback"]
          ELSE [value |-> answerVerifierDefault(r2.message), line |-> "warn"]
     ELSE IF r2.ok THEN [value |-> r2.value, line |-> "ok"]
     ELSE IF r3.ok THEN [value |-> r3.value, line |-> "ok-fallback"]
     ELSE [value |-> answerVerifierDefault(r3.message), line |-> "warn"]

\* the result and the closing log line of an agent that makes one call
ExpectedSingle(a) ==
  LET r == CallAndParse(responses[a][1])
  IN IF r.ok THEN [value |-> r.value, line |-> "ok"]
     ELSE [value |-> CASE a = CA -> conflictAnalyzerDefault(r.message)
                       [] a = DR -> difficultyRaterDefault(r.message)
                       [] a = UC -> unitCheckerDefault(r.message)
                       [] a = EC -> explanationCriticDefault(r.message)
                       [] a = MT -> memoryTrickGeneratorDefault(r.message)
                       [] a = CC -> calculationCheckerDefault(r.message),
           line |-> "warn"]

NotRun == [value |-> Null, line |-> "none"]

\* what each agent returns and the line it closes with, from the plan on
ExpectedRuns ==
  LET P == ExpectedPlan
      av == IF AV \in P.agents THEN ExpectedAnswer ELSE NotRun
      conflict == \/ question.rightOption # question.aiAnswer
                  \/ question.rightOption # question.finalAnswer
                  \/ Str(av.value, "verdict") = "uncertain"
  IN [a \in Agents |->
        CASE a = AV -> av
          [] a = DR -> IF DR \in P.agents THEN ExpectedSingle(DR) ELSE NotRun
          [] a = UC -> IF UC \in P.agents THEN ExpectedSingle(UC) ELSE NotRun
          [] a = CA -> IF (CA \in P.agents \/ conflict) /\ av.value # Null
                       THEN ExpectedSingle(CA) ELSE NotRun
          [] a = EC -> IF EC \notin P.agents THEN NotRun
                       ELSE IF question.finalExplanation = ""
                               /\ question.feedback = ""
                       THEN [value |-> explanationMissing, line |-> "missing"]
                       ELSE ExpectedSingle(EC)
          [] a = MT -> IF MT \in P.agents THEN ExpectedSingle(MT) ELSE NotRun
          [] a = CC -> IF CC \in P.agents \/ Bool(P, "isNumerical")
                       THEN ExpectedSingle(CC) ELSE NotRun]

\* the ReviewResult for plan P and agent results E
ReviewOf(P, E) ==
  LET conflict == \/ question.rightOption # question.aiAnswer
                  \/ question.rightOption # question.finalAnswer
                  \/ Str(E[AV], "verdict") = "uncertain"
      human == \/ Bool(E[AV], "needsHumanReview")
               \/ Bool(E[CA], "escalateToHuman")
               \/ Str(E[AV], "confidence") = "low"
               \/ Str(E[AV], "verdict") = "uncertain"
      reason == OrStr(Str(E[AV], "humanReviewReason"),
                      OrStr(Str(E[CA], "escalationReason"), "Uncertain answer"))
      parts ==
        (IF human THEN <<Notice("HUMAN REVIEW NEEDED", reason)>> ELSE <<>>)
        \o (IF E[CA] # Null /\ conflict
            THEN <<Notice("Answer conflict", Str(E[CA], "conflictType"))>>
            ELSE <<>>)
        \o (IF E[DR] # Null /\ ~Bool(E[DR], "currentRatingCorrect")
            THEN <<Notice("Difficulty", Str(E[DR], "difficulty"))>> ELSE <<>>)
        \o (IF ~Bool(E[UC], "belongsInUnit")
            THEN <<Notice("Unit mismatch", Str(E[UC], "suggestedUnit"))>>
            ELSE <<>>)
        \o (IF Str(E[EC], "quality") \in {"Needs Improvement", "Poor"}
            THEN <<Notice("Explanation", Str(E[EC], "improvementSuggestion"))>>
            ELSE <<>>)
        \o (IF Bool(E[CC], "requiresCalculation")
            THEN <<Notice("Add calculation", Str(E[CC], "calculationSteps"))>>
            ELSE <<>>)
  IN IF \/ ("missingElements" \in DOMAIN E[EC]
            /\ E[EC].missingElements.type # "array")
        \/ ("thresholdsInvolved" \in DOMAIN E[CC]
            /\ E[CC].thresholdsInvolved.type # "array")
     THEN [status |-> "error", needsHuman |-> TRUE, hasConflict |-> FALSE,
           queries |-> <<Notice("SYSTEM ERROR", "TypeError")>>,
           difficulty |-> question.difficulty,
           finalAnswer |-> OrStr(question.finalAnswer, question.rightOption)]
     ELSE [status |-> "done",
           needsHuman |-> human,
           hasConflict |-> conflict,
           plan |-> P,
           finalAnswer |->
             OrStr(Str(E[CA], "finalRecommendedAnswer"),
                   OrStr(Str(E[AV], "correctAnswer"),
                         OrStr(question.finalAnswer, question.rightOption))),
           answer |-> AgentFields(E[AV], {"correctAnswer", "verdict",
                                          "confidence", "reasoning"}),
           conflict |-> AgentFields(E[CA], {"conflictType", "explanation"}),
           difficulty |-> OrStr(Str(E[DR], "difficulty"), question.difficulty),
           difficultyChanged |->
             (E[DR] # Null /\ ~Bool(E[DR], "currentRatingCorrect")),
           unit |-> AgentFields(E[UC], {"belongsInUnit", "suggestedUnit",
                                        "questionType"}),
           explanation |-> AgentFields(E[EC], {"quality", "score",
                              "missingElements", "improvementSuggestion"}),
           calculation |-> AgentFields(E[CC], {"requiresCalculation",
                              "calculationSteps", "thresholdsInvolved"}),
           memory |-> AgentFields(E[MT], {"memoryTrick", "type",
                                          "keyConceptSummary"}),
           queries |-> IF parts = <<>> THEN <<Notice("Kept as is", "")>>
                       ELSE parts]

ExpectedReview ==
  LET E == ExpectedRuns
  IN ReviewOf(ExpectedPlan, [a \in Agents |-> E[a].value])

\* the lines of the log written by who, in their order in the log
LinesOf(who) == SelectSeq(agentLog, LAMBDA l : l.who = who)

\* the lines agent a writes in a review in which it closes with this line
ExpectedLines(a, line) ==
  IF line = "none" THEN <<>> ELSE <<Line(a, "start"), Line(a, line)>>

IsPrefix(s, t) == Len(s) <= Len(t) /\ SubSeq(t, 1, Len(s)) = s

\* the part of the review in which a line is written
StageRank(who) ==
  CASE who = ORCH -> 0
    [] who \in Stage1Agents -> 1
    [] who \in Stage2Agents -> 2
    [] OTHER -> 3

\* what every state of a review with fixed answers satisfies
InterleavingIndependent ==
  LET E == ExpectedRuns
  IN /\ \A a \in Agents :
          IsPrefix(LinesOf(a), ExpectedLines(a, E[a].line))
     /\ \A i \in 1..(Len(agentLog) - 1) :
          StageRank(agentLog[i].who) <= StageRank(agentLog[i + 1].who)
     /\ phase = "returned" =>
          /\ plan = ExpectedPlan
          /\ \A a \in Agents :
               /\ res[a] = E[a].value
               /\ LinesOf(a) = ExpectedLines(a, E[a].line)
          /\ review = ExpectedReview

\* a step appends to the log or leaves it alone
LogAppendOnly == IsPrefix(agentLog, agentLog')

\* C24: the agents of one stage share nothing but the append-only log.
\* With the outcome of every request fixed beforehand, whatever the order
\* in which the concurrent agents of Stage 1 and of Stage 2 settle, the
\* review ends with the same ReviewResult (status, finalAnswer, needsHuman,
\* hasConflict, query summary and agent result fields), the one computed
\* from the question and the fixed outcomes alone; each agent's own log
\* lines are the same and in the same order, lines of a later stage come
\* after those of an earlier one, and no step removes or rewrites a line
\* of the log.
C24_InterleavingIndependent ==
  /\ []InterleavingIndependent
  /\ [][LogAppendOnly]_vars

\* C24 witness: a completed review in which the three Stage-1 agents ran
\* and the Unit Checker, started last, settled before the Answer Verifier,
\* and in Stage 2 the Calculation Checker, started last, settled before
\* the Conflict Analyzer.
C24_Witness ==
  /\ phase = "returned" /\ review.status = "done"
  /\ \E i, j \in 1..Len(agentLog) :
       /\ i < j
       /\ agentLog[i].who = UC /\ agentLog[i].what # "start"
       /\ agentLog[j].who = AV /\ agentLog[j].what # "start"
  /\ \E i, j \in 1..Len(agentLog) :
       /\ i < j
       /\ agentLog[i].who = CC /\ agentLog[i].what # "start"
       /\ agentLog[j].who = CA /\ agentLog[j].what # "start"

\* the number of callLLM invocations of the review so far
RECURSIVE SumOfCalls(_)
SumOfCalls(S) ==
  IF S = {} THEN 0
  ELSE LET p == CHOOSE x \in S : TRUE
       IN Len(calls[p]) + SumOfCalls(S \ {p})
TotalCalls == SumOfCalls(Processes)

\* one call of the orchestrator, three of the Answer Verifier, one of each
\* other agent
MostCalls == 1 + 3 + Cardinality(Agents \ {AV})

\* a stage is left only when each of its agents has settled or was not run
StagesWaitForAll ==
  /\ phase \in {"stage2", "returned"} => Settled(Stage1Agents)
  /\ phase = "returned" => Settled(Stage2Agents) /\ review # Null

\* an agent that awaits a call stays there until that call settles: the
\* review is neither resumed nor ended by anything else
NoTimeout ==
  /\ \A a \in Agents :
       (pc[a] = "await" /\ pc'[a] # "await") =>
         /\ pc'[a] = "done"
         /\ Len(calls'[a]) = Len(calls[a])
         /\ Last(calls[a]).outcome = "pending"
         /\ Last(calls'[a]).outcome \in {"ok", "failed"}
  /\ (\E a \in Agents : pc[a] = "await" /\ pc'[a] = "await"
                        /\ calls'[a] = calls[a])
       => phase' = phase /\ review' = review

\* C25: if every issued call settles, every review reaches its synthesis
\* and returns; a stage is over once each of its invoked agents has
\* settled, also when agents of the stage failed; the review makes at most
\* ten calls; and a review with a call that has not settled does not move
\* on: nothing but the settling of its call ends an agent's wait.
C25_ReviewTerminates ==
  /\ <>(phase = "returned" /\ review # Null)
  /\ (phase = "stage1" /\ Settled(Stage1Agents)) ~> (phase = "stage2")
  /\ (phase = "stage2" /\ Settled(Stage2Agents)) ~> (phase = "returned")
  /\ [](StagesWaitForAll /\ TotalCalls <= MostCalls)
  /\ [][NoTimeout]_vars

\* C25 witness: a review that returned after the Answer Verifier had made
\* its three calls and failed, and the Conflict Analyzer and the
\* Explanation Critic had failed, the other agents of their stages having
\* answered.
C25_Witness ==
  /\ phase = "returned" /\ review # Null
  /\ Len(calls[AV]) = 3 /\ LogHas(AV, "warn")
  /\ LogHas(DR, "ok") /\ LogHas(UC, "ok")
  /\ LogHas(CA, "warn") /\ LogHas(EC, "warn") /\ LogHas(MT, "ok")

\* C26: whenever the Answer Verifier ran and returned its degraded result
\* (all its calls failed), the verdict of that result is 'uncertain'; the
\* coordinator's hasConflict is then true and the Conflict Analyzer is
\* invoked, whatever the plan lists and whatever the question's answers
\* are; the ReviewResult has needsHuman true and its summary starts with a
\* notice that asks for a human review, and a completed review reports
\* hasConflict true.
C26_DegradedVerifierEscalates ==
  ReturnedDegraded(AV) =>
    /\ Gave(AV, "verdict", "uncertain")
    /\ Stage2Begun => (hasConflict /\ Ran(CA))
    /\ review # Null =>
         /\ review.needsHuman
         /\ review.queries[1].kind \in HumanReviewNotices
         /\ review.status = "done" =>
              /\ review.hasConflict
              /\ review.queries[1].kind = "HUMAN REVIEW NEEDED"

\* C26 witness: a completed review of a question whose three answers agree
\* under a plan without conflict_analyzer; the three calls of the Answer
\* Verifier failed and the Conflict Analyzer was run.
C26_Witness ==
  /\ review # Null /\ review.status = "done"
  /\ AnswersAgree
  /\ CA \notin plan.agents
  /\ ReturnedDegraded(AV) /\ Len(calls[AV]) = 3
  /\ pc[CA] = "done"
  /\ review.needsHuman /\ review.hasConflict

\* C27 (as claimed): whenever the Conflict Analyzer ran and its call
\* failed, its degraded result recommends the placeholder '?', and the
\* ReviewResult has finalAnswer '?', not the Answer Verifier's answer nor
\* the question's own final or manual answer, and needsHuman true.
C27_DegradedAnalyzerPlaceholder ==
  ReturnedDegraded(CA) =>
    /\ Gave(CA, "finalRecommendedAnswer", "?")
    /\ review # Null =>
         /\ review.finalAnswer = "?"
         /\ review.needsHuman

\* what holds: the same in the reviews that complete, and needsHuman in
\* all
C27_PlaceholderWhenCompleted ==
  ReturnedDegraded(CA) =>
    /\ Gave(CA, "finalRecommendedAnswer", "?")
    /\ review # Null =>
         /\ review.needsHuman
         /\ review.status = "done" => review.finalAnswer = "?"

\* a completed review in which the Answer Verifier answered 'A', the
\* Conflict Analyzer failed and the final answer is '?'
C27_PlaceholderReached ==
  /\ review # Null /\ review.status = "done"
  /\ ReturnedDegraded(CA)
  /\ LogHas(AV, "ok") /\ Gave(AV, "correctAnswer", "A")
  /\ question.finalAnswer = "A"
  /\ review.finalAnswer = "?"

\* a review in which the Conflict Analyzer failed and the result carries
\* the question's own final answer
C27_OwnAnswerReached ==
  /\ review # Null /\ review.status = "error"
  /\ ReturnedDegraded(CA)
  /\ review.finalAnswer = question.finalAnswer
  /\ review.finalAnswer # "?"

\* the question has no explanation text
NoExplanation == question.finalExplanation = "" /\ question.feedback = ""

\* C28: in a completed review the explanation notice is in the query
\* summary exactly when the Explanation Critic's result has quality 'Needs
\* Improvement' or 'Poor'; a result of quality 'Missing' (the question has
\* no explanation) or 'Unknown' (the degraded result) adds none; so the
\* summary of a question without explanation is the single 'kept as is'
\* notice when the condition of no other notice holds.
C28_MissingOrUnknownAddsNoNotice ==
  (review # Null /\ review.status = "done") =>
    /\ HasNotice("Explanation") <=>
         (Gave(EC, "quality", "Needs Improvement") \/ Gave(EC, "quality", "Poor"))
    /\ (NoExplanation /\ Ran(EC)) =>
         /\ Gave(EC, "quality", "Missing")
         /\ ~HasNotice("Explanation")
    /\ (ReturnedDegraded(EC)) =>
         /\ Gave(EC, "quality", "Unknown")
         /\ ~HasNotice("Explanation")
    /\ (/\ NoExplanation /\ Ran(EC)
        /\ ~review.needsHuman
        /\ ~(review.hasConflict /\ res[CA] # Null)
        /\ ~Gave(DR, "currentRatingCorrect", FALSE)
        /\ Gave(UC, "belongsInUnit", TRUE)
        /\ ~Gave(CC, "requiresCalculation", TRUE))
         => review.queries = <<Notice("Kept as is", "")>>

\* C28 witness: a completed review of a question without explanation, in
\* which the Explanation Critic returned 'Missing', the Unit Checker
\* answered that the question belongs in its unit, and the summary is
\* 'kept as is'.
C28_Witness ==
  /\ review # Null /\ review.status = "done"
  /\ NoExplanation
  /\ Gave(EC, "quality", "Missing")
  /\ LogHas(UC, "ok")
  /\ review.queries = <<Notice("Kept as is", "")>>

\* a completed review in which the Explanation Critic's call failed, its
\* result is 'Unknown' and the summary is 'kept as is'
C28_UnknownKeptAsIsReached ==
  /\ review # Null /\ review.status = "done"
  /\ ReturnedDegraded(EC) /\ Gave(EC, "quality", "Unknown")
  /\ review.queries = <<Notice("Kept as is", "")>>

====
